---- MODULE Spec2Model ----
(***************************************************************************)
(* A model of the chers rules engine: the 120-cell mailbox board, the      *)
(* packed 16-bit move, attack detection, pseudo-legal and legal move       *)
(* generation, and the reversible make_bit_move / undo_move pair.          *)
(***************************************************************************)
EXTENDS Integers, Sequences, FiniteSets, TLC

(***************************************************************************)
(* color.rs: Color(bool), WHITE = false, BLACK = true; to_usize is 0 / 1.  *)
(***************************************************************************)
WHITE == 0
BLACK == 1
Not(c) == 1 - c

(***************************************************************************)
(* piece.rs: PieceType(u8) and Piece(u8) = (color << 3) + piece_type, with *)
(* the two sentinels EMPTY = 14 and OFF_BOARD = 15.                        *)
(***************************************************************************)
PAWN == 0
KNIGHT == 1
BISHOP == 2
ROOK == 3
QUEEN == 4
KING == 5
COLOR_SHIFT == 3
BLACK_COLOR_CODE == 8
W_PAWN == 0
W_KNIGHT == 1
W_BISHOP == 2
W_ROOK == 3
W_QUEEN == 4
W_KING == 5
B_PAWN == 8
B_KNIGHT == 9
B_BISHOP == 10
B_ROOK == 11
B_QUEEN == 12
B_KING == 13
EMPTY == 14
OFF_BOARD == 15

\* Piece::color: Color::from_bool((self.0 >> 3 & 1) == 1). It is computed for
\* every cell value, the sentinels 14 and 15 included.
color(p) == (p \div 8) % 2
\* Piece::piece_type: self.0 & 7
piece_type(p) == p % 8
\* Piece::new
NewPiece(t, c) == c * BLACK_COLOR_CODE + t
is_color(p, c) == color(p) = c
is_type(p, t) == piece_type(p) = t
is_piece(p) == p < EMPTY

(***************************************************************************)
(* square.rs: Square(u8) is the index into the padded board;               *)
(* new(file, rank) = 21 + file + 10 * rank.                                *)
(***************************************************************************)
A1 == 21
B1 == 22
C1 == 23
D1 == 24
E1 == 25
F1 == 26
G1 == 27
H1 == 28
A8 == 91
B8 == 92
C8 == 93
D8 == 94
E8 == 95
F8 == 96
G8 == 97
H8 == 98
SquareNew(file, rank) == 21 + file + 10 * rank
\* Square::file: File::new(self.0 % 10 - 1) on u8. In a build without overflow
\* checks the subtraction wraps (0 - 1 = 255) and File::new's debug_assert is
\* compiled out, so the value is kept as it is.
SquareFile(sq) == ((sq % 10) - 1) % 256
\* Square::rank: Rank::new(self.0 / 10 - 2)
SquareRank(sq) == ((sq \div 10) - 2) % 256
\* The 64 real squares.
RealSquares == {SquareNew(f, r) : f \in 0..7, r \in 0..7}
\* A square whose file() or rank() trips the overflow check or the debug_assert
\* of File::new / Rank::new in a build with debug assertions.
SquareOutOfRange(sq) ==
    \/ sq % 10 = 0
    \/ (sq % 10) - 1 >= 8
    \/ sq \div 10 < 2
    \/ (sq \div 10) - 2 >= 8

\* The "none" values of Option<Square>, Option<BitMove>, Option<Piece>.
NoSquare == 0
NoMove == 65536
NoPiece == 16

(***************************************************************************)
(* position.rs: the offset tables.                                         *)
(***************************************************************************)
WHITE_PAWN_OFFSET == 10
BLACK_PAWN_OFFSET == -10
WHITE_PAWN_CAPTURE_OFFSETS == <<9, 11>>
BLACK_PAWN_CAPTURE_OFFSETS == <<-9, -11>>
KNIGHT_OFFSETS == <<-21, -19, -12, -8, 8, 12, 19, 21>>
BISHOP_OFFSETS == <<-11, -9, 9, 11>>
ROOK_OFFSETS == <<-10, -1, 1, 10>>
KING_OFFSETS == <<-11, -10, -9, -1, 1, 9, 10, 11>>

(***************************************************************************)
(* bit_move.rs: BitMove(u16) = origin code | target code << 6 | flags << 12 *)
(***************************************************************************)
FLAG_QUIET == 0
FLAG_DOUBLE_PAWN_PUSH == 1
FLAG_KING_SIDE_CASTLE == 2
FLAG_QUEEN_SIDE_CASTLE == 3
FLAG_CAPTURE == 4
FLAG_EN_PASSANT == 5
FLAG_PROMOTION == 8

RECURSIVE BitOr(_, _)
\* The | of two unsigned integers.
BitOr(a, b) ==
    IF a = 0 THEN b
    ELSE IF b = 0 THEN a
    ELSE IF a < 8 /\ b % 8 = 0 THEN a + b
    ELSE IF a < 64 /\ b % 64 = 0 THEN a + b
    ELSE IF a < 4096 /\ b % 4096 = 0 THEN a + b
    ELSE (IF a % 2 = 1 \/ b % 2 = 1 THEN 1 ELSE 0) + 2 * BitOr(a \div 2, b \div 2)

\* BitMove::square_to_promotion_code: sq.file().to_u16() | (sq.rank().to_u16() << 3)
square_to_promotion_code(sq) == BitOr(SquareFile(sq), SquareRank(sq) * 8)
\* BitMove::square_from_code
square_from_code(code) == SquareNew(code % 8, (code \div 8) % 8)
\* BitMove::piece_to_code / piece_from_code
piece_to_code(piece) == piece - 1
piece_from_code(code) == code + 1
\* A packing with the flags in the four low bits and the squares above them.
FromFlagBitsLow(org, tgt, flag_bits) ==
    BitOr(BitOr(flag_bits % 16, (square_to_promotion_code(org) * 16) % 65536),
          (square_to_promotion_code(tgt) * 1024) % 65536)
\* BitMove::from_flag_bits, on u16
from_flag_bits(org, tgt, flag_bits) ==
    BitOr(BitOr(square_to_promotion_code(org),
                (square_to_promotion_code(tgt) * 64) % 65536),
          (flag_bits * 4096) % 65536)
new_quiet(org, tgt) == from_flag_bits(org, tgt, FLAG_QUIET)
new_pawn_push(org, tgt) == from_flag_bits(org, tgt, FLAG_DOUBLE_PAWN_PUSH)
new_capture(org, tgt) == from_flag_bits(org, tgt, FLAG_CAPTURE)
new_en_passant(org, tgt) == from_flag_bits(org, tgt, FLAG_EN_PASSANT)
new_promotion_capture(org, tgt, piece) ==
    from_flag_bits(org, tgt, BitOr(BitOr(FLAG_PROMOTION, FLAG_CAPTURE), piece_to_code(piece)))
new_promotion(org, tgt, piece) ==
    from_flag_bits(org, tgt, BitOr(FLAG_PROMOTION, piece_to_code(piece)))
new_castle_kingside(org, tgt) == from_flag_bits(org, tgt, FLAG_KING_SIDE_CASTLE)
new_castle_queenside(org, tgt) == from_flag_bits(org, tgt, FLAG_QUEEN_SIDE_CASTLE)

origin(m) == square_from_code(m % 64)
target(m) == square_from_code((m \div 64) % 64)
flags(m) == m \div 4096
is_capture(m) == (flags(m) \div 4) % 2 = 1
is_quiet(m) == flags(m) = 0
is_promotion(m) == (flags(m) \div 8) % 2 = 1
\* A castle test that looks at the "special 1" bit alone.
IsCastleSpecialBit(m) == (flags(m) \div 2) % 2 = 1
is_castle(m) == flags(m) \div 2 = 1
is_king_side_castle(m) == flags(m) = FLAG_KING_SIDE_CASTLE
is_queen_side_castle(m) == flags(m) = FLAG_QUEEN_SIDE_CASTLE
is_en_passant(m) == flags(m) = FLAG_EN_PASSANT
is_double_push(m) == flags(m) = FLAG_DOUBLE_PAWN_PUSH
promotion_piece(m) == piece_from_code(flags(m) % 4)

\* enum MoveFlags; a field a variant does not have holds a fixed value.
MoveFlagsOf(tag, capture, piece, en_passant, kingside) ==
    [tag |-> tag, capture |-> capture, piece |-> piece, en_passant |-> en_passant,
     kingside |-> kingside]
MoveFlagsPromotion(capture, piece) == MoveFlagsOf("Promotion", capture, piece, FALSE, FALSE)
MoveFlagsCapture(en_passant) == MoveFlagsOf("Capture", TRUE, 0, en_passant, FALSE)
MoveFlagsDoublePawnPush == MoveFlagsOf("DoublePawnPush", FALSE, 0, FALSE, FALSE)
MoveFlagsCastle(kingside) == MoveFlagsOf("Castle", FALSE, 0, FALSE, kingside)
MoveFlagsQuietMove == MoveFlagsOf("QuietMove", FALSE, 0, FALSE, FALSE)
MoveFlags ==
    {MoveFlagsPromotion(c, p) : c \in BOOLEAN, p \in {KNIGHT, BISHOP, ROOK, QUEEN}}
        \cup {MoveFlagsCapture(ep) : ep \in BOOLEAN}
        \cup {MoveFlagsDoublePawnPush}
        \cup {MoveFlagsCastle(k) : k \in BOOLEAN}
        \cup {MoveFlagsQuietMove}
\* BitMove::new
BitMoveNew(org, tgt, move_flags) ==
    LET flag_bits ==
            IF move_flags.tag = "Promotion" /\ move_flags.capture
            THEN BitOr(BitOr(FLAG_PROMOTION, FLAG_CAPTURE), piece_to_code(move_flags.piece))
            ELSE IF move_flags.tag = "Promotion"
            THEN BitOr(FLAG_PROMOTION, piece_to_code(move_flags.piece))
            ELSE IF move_flags.tag = "Capture" /\ move_flags.en_passant THEN FLAG_EN_PASSANT
            ELSE IF move_flags.tag = "Capture" THEN FLAG_CAPTURE
            ELSE IF move_flags.tag = "DoublePawnPush" THEN FLAG_DOUBLE_PAWN_PUSH
            ELSE IF move_flags.tag = "Castle" /\ move_flags.kingside THEN FLAG_KING_SIDE_CASTLE
            ELSE IF move_flags.tag = "Castle" THEN FLAG_QUEEN_SIDE_CASTLE
            ELSE FLAG_QUIET
    IN  from_flag_bits(org, tgt, flag_bits)

\* parsed_move.rs: ParsedMove { origin, target, promotion_piece: Option<PieceType> }
NoPromotion == 7
ParsedMove(org, tgt, promo) == [origin |-> org, target |-> tgt, promotion_piece |-> promo]
\* impl PartialEq<ParsedMove> for BitMove
BitMoveEqParsed(m, parsed) ==
    LET promo == IF is_promotion(m) THEN promotion_piece(m) ELSE NoPromotion
    IN  /\ origin(m) = parsed.origin
        /\ target(m) = parsed.target
        /\ promo = parsed.promotion_piece

(***************************************************************************)
(* castling_rights.rs: CastlingRights(u8), one bit per right.              *)
(***************************************************************************)
WHITE_KING_SIDE == 1
WHITE_QUEEN_SIDE == 2
BLACK_KING_SIDE == 4
BLACK_QUEEN_SIDE == 8
HasRight(cr, bit) == (cr \div bit) % 2 = 1
ClearRight(cr, bit) == IF HasRight(cr, bit) THEN cr - bit ELSE cr
white_king_side(cr) == HasRight(cr, WHITE_KING_SIDE)
white_queen_side(cr) == HasRight(cr, WHITE_QUEEN_SIDE)
black_king_side(cr) == HasRight(cr, BLACK_KING_SIDE)
black_queen_side(cr) == HasRight(cr, BLACK_QUEEN_SIDE)

\* remove_castling_rights with the rook squares forgotten: only a move from or
\* to a king's home square clears rights.
RemoveCastlingRightsKingOnly(cr, sq) ==
    IF sq = E1 THEN ClearRight(ClearRight(cr, WHITE_QUEEN_SIDE), WHITE_KING_SIDE)
    ELSE IF sq = E8 THEN ClearRight(ClearRight(cr, BLACK_QUEEN_SIDE), BLACK_KING_SIDE)
    ELSE cr

\* The closure remove_castling_rights of make_bit_move.
remove_castling_rights(cr, sq) ==
    IF sq = A1 THEN ClearRight(cr, WHITE_QUEEN_SIDE)
    ELSE IF sq = E1 THEN ClearRight(ClearRight(cr, WHITE_QUEEN_SIDE), WHITE_KING_SIDE)
    ELSE IF sq = H1 THEN ClearRight(cr, WHITE_KING_SIDE)
    ELSE IF sq = A8 THEN ClearRight(cr, BLACK_QUEEN_SIDE)
    ELSE IF sq = E8 THEN ClearRight(ClearRight(cr, BLACK_QUEEN_SIDE), BLACK_KING_SIDE)
    ELSE IF sq = H8 THEN ClearRight(cr, BLACK_KING_SIDE)
    ELSE cr

RECURSIVE BitAnd(_, _)
\* The & of two unsigned integers.
BitAnd(a, b) ==
    IF a = 0 \/ b = 0 THEN 0
    ELSE (IF a % 2 = 1 /\ b % 2 = 1 THEN 1 ELSE 0) + 2 * BitAnd(a \div 2, b \div 2)

\* A mask table with the masks of a8 and h8 exchanged.
CastleMaskCornersSwapped ==
    <<15, 15, 15, 15, 15, 15, 15, 15, 15, 15,
      15, 15, 15, 15, 15, 15, 15, 15, 15, 15,
      15, 13, 15, 15, 15, 12, 15, 15, 14, 15,
      15, 15, 15, 15, 15, 15, 15, 15, 15, 15,
      15, 15, 15, 15, 15, 15, 15, 15, 15, 15,
      15, 15, 15, 15, 15, 15, 15, 15, 15, 15,
      15, 15, 15, 15, 15, 15, 15, 15, 15, 15,
      15, 15, 15, 15, 15, 15, 15, 15, 15, 15,
      15, 15, 15, 15, 15, 15, 15, 15, 15, 15,
      15, 11, 15, 15, 15,  3, 15, 15,  7, 15,
      15, 15, 15, 15, 15, 15, 15, 15, 15, 15,
      15, 15, 15, 15, 15, 15, 15, 15, 15, 15>>

\* const CASTLE_MASK: [u8; 120], the entry of index i being CASTLE_MASK[i + 1].
CASTLE_MASK ==
    <<15, 15, 15, 15, 15, 15, 15, 15, 15, 15,
      15, 15, 15, 15, 15, 15, 15, 15, 15, 15,
      15, 13, 15, 15, 15, 12, 15, 15, 14, 15,
      15, 15, 15, 15, 15, 15, 15, 15, 15, 15,
      15, 15, 15, 15, 15, 15, 15, 15, 15, 15,
      15, 15, 15, 15, 15, 15, 15, 15, 15, 15,
      15, 15, 15, 15, 15, 15, 15, 15, 15, 15,
      15, 15, 15, 15, 15, 15, 15, 15, 15, 15,
      15, 15, 15, 15, 15, 15, 15, 15, 15, 15,
      15,  7, 15, 15, 15,  3, 15, 15, 11, 15,
      15, 15, 15, 15, 15, 15, 15, 15, 15, 15,
      15, 15, 15, 15, 15, 15, 15, 15, 15, 15>>

\* CastlingRights::update: self.0 &= CASTLE_MASK[sq]
update(cr, sq) == BitAnd(cr, CASTLE_MASK[sq + 1])

(***************************************************************************)
(* A position value: the fields of struct Position. pieces is the 120-cell  *)
(* board, king_square the two cached king squares (indexed by color),       *)
(* state the chain of PositionState records linked through prev_state, the  *)
(* last element being the current record self.state.                        *)
(***************************************************************************)
PositionState(cr, ep, hm, pm, cp) ==
    [castling_rights |-> cr, ep_square |-> ep, halfmove_clock |-> hm,
     prev_move |-> pm, captured_piece |-> cp]
\* PositionState::new
PositionStateNew(cr, ep, hm) == PositionState(cr, ep, hm, NoMove, NoPiece)
\* self.state
CurrentState(pos) == pos.state[Len(pos.state)]

(***************************************************************************)
(* attack.rs                                                               *)
(***************************************************************************)
\* The number of steps of offset from org to the first cell that is not empty.
\* The border of OFF_BOARD cells ends every ray within eight steps, or within
\* nine if a made move has emptied a cell of the inner border row.
RayLength(pieces, org, offset) ==
    CHOOSE k \in 1..9 : /\ \A j \in 1..(k - 1) : pieces[org + j * offset] = EMPTY
                        /\ pieces[org + k * offset] # EMPTY

\* The while loop of is_attacked over one ray: walk from target in steps of
\* offset until a cell is not empty; TRUE iff that cell holds one of wanted.
RayHits(pieces, tgt, offset, wanted) ==
    LET org == tgt - offset
        piece == pieces[org + RayLength(pieces, org, offset) * offset]
    IN  IF piece = OFF_BOARD THEN FALSE ELSE piece \in wanted

\* is_attacked with the pawn offsets of the attacker's own captures, so that a
\* pawn attacks the squares behind it.
IsAttackedPawnsBackward(pieces, square, attacker) ==
    LET pawn_offsets == IF attacker = WHITE THEN WHITE_PAWN_CAPTURE_OFFSETS
                        ELSE BLACK_PAWN_CAPTURE_OFFSETS
        pawn == IF attacker = WHITE THEN W_PAWN ELSE B_PAWN
        knight == IF attacker = WHITE THEN W_KNIGHT ELSE B_KNIGHT
        bishop == IF attacker = WHITE THEN W_BISHOP ELSE B_BISHOP
        rook == IF attacker = WHITE THEN W_ROOK ELSE B_ROOK
        queen == IF attacker = WHITE THEN W_QUEEN ELSE B_QUEEN
        king == IF attacker = WHITE THEN W_KING ELSE B_KING
    IN  \/ \E i \in 1..2 : pieces[square + pawn_offsets[i]] = pawn
        \/ \E i \in 1..8 : pieces[square + KNIGHT_OFFSETS[i]] = knight
        \/ \E i \in 1..4 :
              RayHits(pieces, square + BISHOP_OFFSETS[i], BISHOP_OFFSETS[i], {bishop, queen})
        \/ \E i \in 1..4 :
              RayHits(pieces, square + ROOK_OFFSETS[i], ROOK_OFFSETS[i], {rook, queen})
        \/ \E i \in 1..8 : pieces[square + KING_OFFSETS[i]] = king

\* Position::is_attacked
is_attacked(pieces, square, attacker) ==
    LET pawn_offsets == IF attacker = WHITE THEN BLACK_PAWN_CAPTURE_OFFSETS
                        ELSE WHITE_PAWN_CAPTURE_OFFSETS
        pawn == IF attacker = WHITE THEN W_PAWN ELSE B_PAWN
        knight == IF attacker = WHITE THEN W_KNIGHT ELSE B_KNIGHT
        bishop == IF attacker = WHITE THEN W_BISHOP ELSE B_BISHOP
        rook == IF attacker = WHITE THEN W_ROOK ELSE B_ROOK
        queen == IF attacker = WHITE THEN W_QUEEN ELSE B_QUEEN
        king == IF attacker = WHITE THEN W_KING ELSE B_KING
    IN  \/ \E i \in 1..2 : pieces[square + pawn_offsets[i]] = pawn
        \/ \E i \in 1..8 : pieces[square + KNIGHT_OFFSETS[i]] = knight
        \/ \E i \in 1..4 :
              RayHits(pieces, square + BISHOP_OFFSETS[i], BISHOP_OFFSETS[i], {bishop, queen})
        \/ \E i \in 1..4 :
              RayHits(pieces, square + ROOK_OFFSETS[i], ROOK_OFFSETS[i], {rook, queen})
        \/ \E i \in 1..8 : pieces[square + KING_OFFSETS[i]] = king

\* Position::in_check
in_check(pos, side) == is_attacked(pos.pieces, pos.king_square[side], Not(side))
\* Position::is_check
is_check(pos) == in_check(pos, pos.side_to_move)

(***************************************************************************)
(* position.rs: make_bit_move and undo_move                                *)
(***************************************************************************)
\* A castle that moves the king and leaves the rook on its home square.
CastleCellsKingOnly(pieces, p, king_from, king_to, rook_from, rook_to) ==
    [[pieces EXCEPT ![king_to] = p] EXCEPT ![king_from] = EMPTY]

\* The four-cell rewrite of a castle in make_bit_move: rook to rook_to, the
\* king p to king_to, and the two home squares emptied.
CastleCells(pieces, p, king_from, king_to, rook_from, rook_to) ==
    LET b1 == [pieces EXCEPT ![rook_to] = pieces[rook_from]]
        b2 == [b1 EXCEPT ![king_to] = p]
        b3 == [b2 EXCEPT ![king_from] = EMPTY]
    IN  [b3 EXCEPT ![rook_from] = EMPTY]

\* The capture square taken to be the target for every capture, en passant too.
CaptureFieldTarget(m, mover_color) == target(m)

\* The square of the piece a capture removes (position.rs 91-99, 214-222).
CaptureField(m, mover_color) ==
    IF is_en_passant(m)
    THEN IF mover_color = WHITE
         THEN SquareNew(SquareFile(target(m)), SquareRank(target(m)) - 1)
         ELSE SquareNew(SquareFile(target(m)), SquareRank(target(m)) + 1)
    ELSE target(m)

\* The halfmove clock reset on captures only, pawn moves forgotten.
NewHalfmoveClockCaptureOnly(m, p, old_clock) ==
    IF is_capture(m) THEN 0 ELSE old_clock + 1

\* The halfmove clock make_bit_move stores (position.rs 75-79).
NewHalfmoveClock(m, p, old_clock) ==
    IF is_capture(m) \/ is_type(p, PAWN) THEN 0 ELSE old_clock + 1

\* The en-passant square put on the third rank whatever the colour of the pawn.
NewEpSquareThirdRank(m, p) ==
    IF is_double_push(m) THEN SquareNew(SquareFile(target(m)), 2) ELSE NoSquare

\* The en-passant square make_bit_move stores (position.rs 81-88).
NewEpSquare(m, p) ==
    IF is_double_push(m)
    THEN SquareNew(SquareFile(target(m)), IF color(p) = WHITE THEN 2 ELSE 5)
    ELSE NoSquare

\* The board after make_bit_move (position.rs 161-200).
MadeBoard(pieces, m, p, piece, capture_field) ==
    IF color(p) = WHITE /\ is_king_side_castle(m)
    THEN CastleCells(pieces, p, E1, G1, H1, F1)
    ELSE IF color(p) = WHITE /\ is_queen_side_castle(m)
    THEN CastleCells(pieces, p, E1, C1, A1, D1)
    ELSE IF color(p) = BLACK /\ is_king_side_castle(m)
    THEN CastleCells(pieces, p, E8, G8, H8, F8)
    ELSE IF color(p) = BLACK /\ is_queen_side_castle(m)
    THEN CastleCells(pieces, p, E8, C8, A8, D8)
    ELSE LET b1 == [pieces EXCEPT ![capture_field] = EMPTY]
             b2 == [b1 EXCEPT ![target(m)] = piece]
         IN  [b2 EXCEPT ![origin(m)] = EMPTY]

\* The king-square cache after make_bit_move (position.rs 158-160); mover is
\* the side that was to move when make_bit_move was called.
MadeKingSquare(king_square, m, mover) ==
    IF origin(m) = king_square[mover]
    THEN [king_square EXCEPT ![mover] = target(m)]
    ELSE king_square

\* Position::make_bit_move
make_bit_move(pos, m) ==
    LET st == CurrentState(pos)
        p == pos.pieces[origin(m)]
    IN  IF ~is_piece(p) THEN pos
        ELSE
        LET mover == pos.side_to_move
            capture_field == CaptureField(m, color(p))
            captured_piece ==
                IF is_capture(m) /\ is_piece(pos.pieces[capture_field])
                THEN pos.pieces[capture_field] ELSE NoPiece
            piece == IF is_promotion(m) THEN NewPiece(promotion_piece(m), color(p)) ELSE p
            castling_rights ==
                remove_castling_rights(
                    remove_castling_rights(st.castling_rights, origin(m)), target(m))
            new_state == PositionState(castling_rights, NewEpSquare(m, p),
                                       NewHalfmoveClock(m, p, st.halfmove_clock),
                                       m, captured_piece)
        IN  [pieces |-> MadeBoard(pos.pieces, m, p, piece, capture_field),
             king_square |-> MadeKingSquare(pos.king_square, m, mover),
             side_to_move |-> Not(pos.side_to_move),
             ply |-> pos.ply + 1,
             state |-> Append(pos.state, new_state)]

\* The four-cell rewrite of a castle in undo_move.
UncastleCells(pieces, p, king_from, king_to, rook_from, rook_to) ==
    LET b1 == [pieces EXCEPT ![rook_from] = pieces[rook_to]]
        b2 == [b1 EXCEPT ![king_from] = p]
        b3 == [b2 EXCEPT ![rook_to] = EMPTY]
    IN  [b3 EXCEPT ![king_to] = EMPTY]

\* The board after undo_move (position.rs 239-276).
UnmadeBoard(pieces, m, p, piece, capture_field, captured_piece) ==
    IF color(p) = WHITE /\ is_king_side_castle(m)
    THEN UncastleCells(pieces, p, E1, G1, H1, F1)
    ELSE IF color(p) = WHITE /\ is_queen_side_castle(m)
    THEN UncastleCells(pieces, p, E1, C1, A1, D1)
    ELSE IF color(p) = BLACK /\ is_king_side_castle(m)
    THEN UncastleCells(pieces, p, E8, G8, H8, F8)
    ELSE IF color(p) = BLACK /\ is_queen_side_castle(m)
    THEN UncastleCells(pieces, p, E8, C8, A8, D8)
    ELSE LET b1 == [pieces EXCEPT ![target(m)] = EMPTY]
             b2 == [b1 EXCEPT ![origin(m)] = piece]
         IN  [b2 EXCEPT ![capture_field] = captured_piece]

\* The king-square cache after undo_move (position.rs 233-235); side is the
\* side to move after the flip, the side that made the move.
UnmadeKingSquare(king_square, m, side) ==
    IF target(m) = king_square[side]
    THEN [king_square EXCEPT ![side] = origin(m)]
    ELSE king_square

\* The piece undo_move puts back on the origin (position.rs 224-228).
UnmadePiece(m, p) == IF is_promotion(m) THEN NewPiece(PAWN, color(p)) ELSE p

\* undo_move with the current record kept instead of replaced by prev_state.
PoppedStateKept(chain) == chain

\* self.state = self.state.prev_state.as_ref().unwrap().clone() (position.rs 237)
PoppedState(chain) == SubSeq(chain, 1, Len(chain) - 1)

\* undo_move panics at state.prev_move.unwrap() when the current record is the
\* one the position was constructed with.
UndoPanics(pos) == CurrentState(pos).prev_move = NoMove

\* Position::undo_move, for a position whose current record has a prev_move.
undo_move(pos) ==
    LET st == CurrentState(pos)
        m == st.prev_move
        side == Not(pos.side_to_move)
        p == pos.pieces[target(m)]
    IN  IF ~is_piece(p)
        THEN [pos EXCEPT !.side_to_move = side, !.ply = pos.ply - 1]
        ELSE
        LET capture_field == CaptureField(m, side)
            piece == UnmadePiece(m, p)
            captured_piece == IF st.captured_piece # NoPiece THEN st.captured_piece ELSE EMPTY
        IN  [pieces |-> UnmadeBoard(pos.pieces, m, p, piece, capture_field, captured_piece),
             king_square |-> UnmadeKingSquare(pos.king_square, m, side),
             side_to_move |-> side,
             ply |-> pos.ply - 1,
             state |-> PoppedState(pos.state)]

(***************************************************************************)
(* generate_moves.rs                                                       *)
(***************************************************************************)
\* add_promotion_capture / add_promotion push queen, rook, bishop, knight.
add_promotion_capture(org, tgt) ==
    <<new_promotion_capture(org, tgt, QUEEN), new_promotion_capture(org, tgt, ROOK),
      new_promotion_capture(org, tgt, BISHOP), new_promotion_capture(org, tgt, KNIGHT)>>
add_promotion(org, tgt) ==
    <<new_promotion(org, tgt, QUEEN), new_promotion(org, tgt, ROOK),
      new_promotion(org, tgt, BISHOP), new_promotion(org, tgt, KNIGHT)>>

\* The test of a diagonal cell in generate_white_pawn_moves (line 156).
WhitePawnCaptureTest(pos, tgt) == is_color(pos.pieces[tgt], Not(pos.side_to_move))
\* The test of a diagonal cell in generate_black_pawn_moves (line 194).
BlackPawnCaptureTest(pos, tgt) ==
    is_piece(pos.pieces[tgt]) /\ is_color(pos.pieces[tgt], Not(pos.side_to_move))

\* The push part shared by both pawn generators (lines 165-181, 203-219).
PawnPushes(pos, org, offset, starting_rank, promotion_rank) ==
    LET tgt == org + offset
    IN  IF pos.pieces[tgt] = EMPTY
        THEN (IF promotion_rank THEN add_promotion(org, tgt) ELSE <<new_quiet(org, tgt)>>)
             \o (IF starting_rank /\ pos.pieces[org + 2 * offset] = EMPTY
                 THEN <<new_pawn_push(org, org + 2 * offset)>> ELSE <<>>)
        ELSE <<>>

\* One capture direction of a pawn generator.
PawnCapture(org, tgt, test, promotion_rank) ==
    IF test
    THEN (IF promotion_rank THEN add_promotion_capture(org, tgt) ELSE <<new_capture(org, tgt)>>)
    ELSE <<>>

generate_white_pawn_moves(pos, org) ==
    LET starting_rank == SquareRank(org) = 1
        promotion_rank == SquareRank(org) = 6
        t1 == org + WHITE_PAWN_CAPTURE_OFFSETS[1]
        t2 == org + WHITE_PAWN_CAPTURE_OFFSETS[2]
    IN  PawnCapture(org, t1, WhitePawnCaptureTest(pos, t1), promotion_rank)
        \o PawnCapture(org, t2, WhitePawnCaptureTest(pos, t2), promotion_rank)
        \o PawnPushes(pos, org, WHITE_PAWN_OFFSET, starting_rank, promotion_rank)

generate_black_pawn_moves(pos, org) ==
    LET starting_rank == SquareRank(org) = 6
        promotion_rank == SquareRank(org) = 1
        t1 == org + BLACK_PAWN_CAPTURE_OFFSETS[1]
        t2 == org + BLACK_PAWN_CAPTURE_OFFSETS[2]
    IN  PawnCapture(org, t1, BlackPawnCaptureTest(pos, t1), promotion_rank)
        \o PawnCapture(org, t2, BlackPawnCaptureTest(pos, t2), promotion_rank)
        \o PawnPushes(pos, org, BLACK_PAWN_OFFSET, starting_rank, promotion_rank)

\* One offset of generate_knight_moves / generate_king_moves (the match).
StepMove(pos, org, offset) ==
    LET tgt == org + offset
        cell == pos.pieces[tgt]
    IN  IF cell = EMPTY THEN <<new_quiet(org, tgt)>>
        ELSE IF cell = OFF_BOARD THEN <<>>
        ELSE IF is_color(cell, pos.side_to_move) THEN <<>>
        ELSE <<new_capture(org, tgt)>>

\* for offset in offsets { ... } over the eight offsets of a knight or a king.
StepMoves(pos, org, offsets) ==
    ((StepMove(pos, org, offsets[1]) \o StepMove(pos, org, offsets[2]))
        \o (StepMove(pos, org, offsets[3]) \o StepMove(pos, org, offsets[4])))
    \o ((StepMove(pos, org, offsets[5]) \o StepMove(pos, org, offsets[6]))
        \o (StepMove(pos, org, offsets[7]) \o StepMove(pos, org, offsets[8])))

generate_knight_moves(pos, org) == StepMoves(pos, org, KNIGHT_OFFSETS)
generate_king_moves(pos, org) == StepMoves(pos, org, KING_OFFSETS)

\* The while loop of generate_bishop_moves / generate_rook_moves over one ray:
\* a quiet move to every empty cell, then a capture if the cell that ends the
\* ray holds a piece of the other side.
RayMoves(pos, org, offset) ==
    LET n == RayLength(pos.pieces, org, offset)
        tgt == org + n * offset
        piece == pos.pieces[tgt]
        quiet == [j \in 1..(n - 1) |-> new_quiet(org, org + j * offset)]
    IN  IF piece = OFF_BOARD THEN quiet
        ELSE IF is_color(piece, Not(pos.side_to_move)) THEN quiet \o <<new_capture(org, tgt)>>
        ELSE quiet

\* for offset in offsets { ... } over the four offsets of a bishop or a rook.
SlideMoves(pos, org, offsets) ==
    (RayMoves(pos, org, offsets[1]) \o RayMoves(pos, org, offsets[2]))
    \o (RayMoves(pos, org, offsets[3]) \o RayMoves(pos, org, offsets[4]))

generate_bishop_moves(pos, org) == SlideMoves(pos, org, BISHOP_OFFSETS)
generate_rook_moves(pos, org) == SlideMoves(pos, org, ROOK_OFFSETS)

\* is_empty_and_not_attacked with the attack test forgotten.
IsEmptyOnly(pos, sq) == pos.pieces[sq] = EMPTY

\* Position::is_empty_and_not_attacked
is_empty_and_not_attacked(pos, sq) ==
    pos.pieces[sq] = EMPTY /\ ~is_attacked(pos.pieces, sq, Not(pos.side_to_move))

generate_castling_moves(pos) ==
    LET cr == CurrentState(pos).castling_rights
    IN  IF pos.side_to_move = WHITE
        THEN (IF /\ white_king_side(cr)
                 /\ is_empty_and_not_attacked(pos, F1)
                 /\ is_empty_and_not_attacked(pos, G1)
                 /\ ~is_check(pos)
              THEN <<new_castle_kingside(E1, G1)>> ELSE <<>>)
             \o
             (IF /\ white_queen_side(cr)
                 /\ pos.pieces[B1] = EMPTY
                 /\ is_empty_and_not_attacked(pos, C1)
                 /\ is_empty_and_not_attacked(pos, D1)
                 /\ ~is_check(pos)
              THEN <<new_castle_queenside(E1, C1)>> ELSE <<>>)
        ELSE (IF /\ black_king_side(cr)
                 /\ is_empty_and_not_attacked(pos, F8)
                 /\ is_empty_and_not_attacked(pos, G8)
                 /\ ~is_check(pos)
              THEN <<new_castle_kingside(E8, G8)>> ELSE <<>>)
             \o
             (IF /\ black_queen_side(cr)
                 /\ pos.pieces[B8] = EMPTY
                 /\ is_empty_and_not_attacked(pos, C8)
                 /\ is_empty_and_not_attacked(pos, D8)
                 /\ ~is_check(pos)
              THEN <<new_castle_queenside(E8, C8)>> ELSE <<>>)

\* generate_en_passant_moves_white / _black: offsets are added to the target.
EnPassantFrom(pos, sq, offset, pawn) ==
    IF pos.pieces[sq + offset] = pawn THEN <<new_en_passant(sq + offset, sq)>> ELSE <<>>

generate_en_passant_moves_white(pos) ==
    LET sq == CurrentState(pos).ep_square
    IN  IF sq = NoSquare THEN <<>>
        ELSE EnPassantFrom(pos, sq, BLACK_PAWN_CAPTURE_OFFSETS[1], W_PAWN)
             \o EnPassantFrom(pos, sq, BLACK_PAWN_CAPTURE_OFFSETS[2], W_PAWN)

generate_en_passant_moves_black(pos) ==
    LET sq == CurrentState(pos).ep_square
    IN  IF sq = NoSquare THEN <<>>
        ELSE EnPassantFrom(pos, sq, WHITE_PAWN_CAPTURE_OFFSETS[1], B_PAWN)
             \o EnPassantFrom(pos, sq, WHITE_PAWN_CAPTURE_OFFSETS[2], B_PAWN)

\* The match on the piece of one square in generate_pseudo_legal_moves. The
\* arms PAWN_W and PAWN_B are the pawn of either color.
SquareMoves(pos, square) ==
    LET piece == pos.pieces[square]
        t == piece_type(piece)
    IN  IF ~is_color(piece, pos.side_to_move) THEN <<>>
        ELSE IF piece = W_PAWN THEN generate_white_pawn_moves(pos, square)
        ELSE IF piece = B_PAWN THEN generate_black_pawn_moves(pos, square)
        ELSE IF t = KNIGHT THEN generate_knight_moves(pos, square)
        ELSE IF t = BISHOP THEN generate_bishop_moves(pos, square)
        ELSE IF t = ROOK THEN generate_rook_moves(pos, square)
        ELSE IF t = QUEEN
        THEN generate_bishop_moves(pos, square) \o generate_rook_moves(pos, square)
        ELSE IF t = KING THEN generate_king_moves(pos, square)
        ELSE <<>>

RECURSIVE BoardMoves(_, _, _)
\* for i in 0..8 { for j in 0..8 { square = Square::new(File::new(i), Rank::new(j)) } }
\* for the squares numbered lo..hi-1 in the order of the loops, halved.
BoardMoves(pos, lo, hi) ==
    IF hi - lo = 1 THEN SquareMoves(pos, SquareNew(lo \div 8, lo % 8))
    ELSE BoardMoves(pos, lo, (lo + hi) \div 2) \o BoardMoves(pos, (lo + hi) \div 2, hi)

\* Position::generate_pseudo_legal_moves
generate_pseudo_legal_moves(pos) ==
    BoardMoves(pos, 0, 64)
    \o generate_castling_moves(pos)
    \o (IF pos.side_to_move = WHITE THEN generate_en_passant_moves_white(pos)
        ELSE generate_en_passant_moves_black(pos))

\* In a build with debug assertions, packing a move whose target index is not
\* a real square panics inside Square::file (u8 underflow) or File::new
\* (debug_assert!(index < 8)). Only a white pawn's diagonal can be such a target.
GeneratePanics(pos) ==
    /\ pos.side_to_move = WHITE
    /\ \E sq \in RealSquares : \E i \in 1..2 :
          /\ pos.pieces[sq] = W_PAWN
          /\ WhitePawnCaptureTest(pos, sq + WHITE_PAWN_CAPTURE_OFFSETS[i])
          /\ SquareOutOfRange(sq + WHITE_PAWN_CAPTURE_OFFSETS[i])

RECURSIVE FilterLegal(_, _, _, _)
\* The filter closure of generate_legal_moves run over the candidates lo..hi in
\* order: make, test the mover's king, undo. The position is threaded through.
FilterLegal(pos, candidates, lo, hi) ==
    IF lo > hi THEN [moves |-> <<>>, pos |-> pos]
    ELSE IF lo = hi
    THEN LET made == make_bit_move(pos, candidates[lo])
             result == ~in_check(made, Not(made.side_to_move))
         IN  [moves |-> IF result THEN <<candidates[lo]>> ELSE <<>>,
              pos |-> undo_move(made)]
    ELSE LET first == FilterLegal(pos, candidates, lo, (lo + hi) \div 2)
             rest == FilterLegal(first.pos, candidates, (lo + hi) \div 2 + 1, hi)
         IN  [moves |-> first.moves \o rest.moves, pos |-> rest.pos]

\* The filter run over a list of candidates.
FilterAll(pos, candidates) == FilterLegal(pos, candidates, 1, Len(candidates))

\* Position::generate_legal_moves: the list returned and the position left.
generate_legal_moves(pos) == FilterAll(pos, generate_pseudo_legal_moves(pos))

(***************************************************************************)
(* search.rs. A call returns the score (or the move), the position it       *)
(* leaves and whether it panicked; dbg is the build having debug           *)
(* assertions. evaluate, INF and the captures-only generation are not in   *)
(* the repository's files and follow the description of the search.        *)
(***************************************************************************)
\* BitMove::NULL
NULL == 0
\* The "large" score of a checkmate.
INF == 1000000

\* The value of a piece for the static evaluation.
PieceValue(p) ==
    CASE piece_type(p) = PAWN -> 100
      [] piece_type(p) = KNIGHT -> 300
      [] piece_type(p) = BISHOP -> 300
      [] piece_type(p) = ROOK -> 500
      [] piece_type(p) = QUEEN -> 900
      [] OTHER -> 0

\* The number of cells that hold the piece p.
Count(pieces, p) == Cardinality({sq \in RealSquares : pieces[sq] = p})

\* The value of the pieces of color c.
Material(pieces, c) ==
    LET piece(t) == c * 8 + t
    IN  PieceValue(piece(PAWN)) * Count(pieces, piece(PAWN))
        + PieceValue(piece(KNIGHT)) * Count(pieces, piece(KNIGHT))
        + PieceValue(piece(BISHOP)) * Count(pieces, piece(BISHOP))
        + PieceValue(piece(ROOK)) * Count(pieces, piece(ROOK))
        + PieceValue(piece(QUEEN)) * Count(pieces, piece(QUEEN))

\* The static evaluation, from the point of view of the side to move.
evaluate(pos) ==
    Material(pos.pieces, pos.side_to_move) - Material(pos.pieces, Not(pos.side_to_move))

\* moves.sort(): ascending on the packed u16 (BitMove derives Ord). The place
\* of the i-th move is one more than the number of moves that go before it.
SortMoves(list) ==
    LET n == Len(list)
        place(i) == 1 + Cardinality({j \in 1..n : (list[j] < list[i])
                                                \/ (list[j] = list[i] /\ j < i)})
    IN  [r \in 1..n |-> list[CHOOSE i \in 1..n : place(i) = r]]

\* generate_pseudo_legal_moves(captures_only)
generate_moves_for_search(pos, captures_only) ==
    IF captures_only
    THEN SelectSeq(generate_pseudo_legal_moves(pos), is_capture)
    ELSE generate_pseudo_legal_moves(pos)

\* let mut moves = self.generate_pseudo_legal_moves(captures_only); moves.sort();
\* as the set that holds the one sorted list.
SortedMoves(pos, captures_only) ==
    {SortMoves(list) : list \in {generate_moves_for_search(pos, captures_only)}}

Larger(a, b) == IF a > b THEN a ELSE b

\* What a call of negamax or quiescence_search gives back: the value, the
\* position it leaves and whether it panicked; deepest is the greatest number
\* of its own makes that were not yet undone at one moment of the call, chain
\* the greatest such number within one call of quiescence_search.
SearchResult(score, pos, panics) ==
    [score |-> score, pos |-> pos, panicked |-> panics, deepest |-> 0, chain |-> 0]
\* The result res of a call whose loop was left in state st.
Returned(res, st) == [res EXCEPT !.deepest = st.deepest, !.chain = st.chain]
\* The loop state next that follows st after a make whose call below had
\* child_deepest makes outstanding at most and child_chain of them in one
\* quiescence_search.
Made(next, st, child_deepest, child_chain) ==
    [next EXCEPT !.deepest = Larger(st.deepest, 1 + child_deepest),
                 !.chain = Larger(st.chain, child_chain)]

\* What a loop of the search carries from one move to the next: the position,
\* alpha, whether a legal move was seen, and how the loop was left ("" while it
\* runs, "beta" on a cutoff, "panic"); examined lists the moves the loop has
\* taken from the list and made so far, in that order, each with whether it
\* was legal and the value of the local evaluation it got.
Examined(m, legal, evaluation) == [m |-> m, legal |-> legal, evaluation |-> evaluation]
LoopState(pos, alpha, any_legal_move, left, examined) ==
    [pos |-> pos, alpha |-> alpha, any_legal_move |-> any_legal_move, left |-> left,
     examined |-> examined, deepest |-> 0, chain |-> 0]

\* The body of the for loop of quiescence_search for one capture.
QuiescenceStep(st, m, beta) ==
    LET made == make_bit_move(st.pos, m)
    IN  IF in_check(made, Not(made.side_to_move))
        THEN Made([st EXCEPT !.pos = undo_move(made),
                             !.examined = Append(@, Examined(m, FALSE, 0))], st, 0, 1)
        ELSE LET evaluation == -evaluate(made)
                 undone == undo_move(made)
             IN  IF evaluation >= beta
                 THEN Made(LoopState(undone, st.alpha, TRUE, "beta",
                                     Append(st.examined, Examined(m, TRUE, evaluation))),
                           st, 0, 1)
                 ELSE Made(LoopState(undone,
                                     IF evaluation > st.alpha THEN evaluation ELSE st.alpha,
                                     TRUE, "",
                                     Append(st.examined, Examined(m, TRUE, evaluation))),
                           st, 0, 1)

RECURSIVE QuiescenceLoop(_, _, _, _, _)
\* The for loop of quiescence_search over the captures lo..hi: the first half
\* of them, then the rest from the state the first half leaves.
QuiescenceLoop(st, capture_moves, lo, hi, beta) ==
    IF lo > hi \/ st.left # "" THEN st
    ELSE IF lo = hi THEN QuiescenceStep(st, capture_moves[lo], beta)
    ELSE CHOOSE rest \in
             {IF first.left # "" THEN first
              ELSE QuiescenceLoop(first, capture_moves, (lo + hi) \div 2 + 1, hi, beta) :
                  first \in {QuiescenceLoop(st, capture_moves, lo, (lo + hi) \div 2, beta)}} :
             TRUE

\* quiescence_search once the captures are generated and sorted.
QuiescenceOver(pos, capture_moves, alpha, beta) ==
    CHOOSE result \in
        {Returned(SearchResult(IF st.left = "beta" THEN beta ELSE st.alpha, st.pos, FALSE), st) :
            st \in {QuiescenceLoop(LoopState(pos, alpha, FALSE, "", <<>>), capture_moves,
                                   1, Len(capture_moves), beta)}} :
        TRUE

\* Position::quiescence_search
quiescence_search(pos, alpha, beta, dbg) ==
    CHOOSE result \in
        {IF evaluation >= beta THEN SearchResult(beta, pos, FALSE)
         ELSE IF dbg /\ GeneratePanics(pos) THEN SearchResult(0, pos, TRUE)
         ELSE CHOOSE over \in
                  {QuiescenceOver(pos, capture_moves,
                                  IF evaluation > alpha THEN evaluation ELSE alpha, beta) :
                      capture_moves \in SortedMoves(pos, TRUE)} :
                  TRUE :
            evaluation \in {evaluate(pos)}} :
        TRUE

RECURSIVE negamax(_, _, _, _, _)
\* A loop body without the cutoff: a score of beta or more only raises alpha.
NegamaxStepNoCutoff(st, m, depth, beta, dbg) ==
    LET made == make_bit_move(st.pos, m)
    IN  IF in_check(made, Not(made.side_to_move))
        THEN Made([st EXCEPT !.pos = undo_move(made),
                             !.examined = Append(@, Examined(m, FALSE, 0))], st, 0, 0)
        ELSE CHOOSE next \in
                 {Made(IF r.panicked
                       THEN LoopState(r.pos, st.alpha, TRUE, "panic",
                                      Append(st.examined, Examined(m, TRUE, 0)))
                       ELSE LoopState(undo_move(r.pos),
                                      IF -r.score > st.alpha THEN -r.score ELSE st.alpha,
                                      TRUE, "",
                                      Append(st.examined, Examined(m, TRUE, -r.score))),
                       st, r.deepest, r.chain) :
                     r \in {negamax(made, depth - 1, -beta, -st.alpha, dbg)}} :
                 TRUE

\* The body of the for loop of negamax for one candidate.
NegamaxStep(st, m, depth, beta, dbg) ==
    LET made == make_bit_move(st.pos, m)
    IN  IF in_check(made, Not(made.side_to_move))
        THEN Made([st EXCEPT !.pos = undo_move(made),
                             !.examined = Append(@, Examined(m, FALSE, 0))], st, 0, 0)
        ELSE CHOOSE next \in
                 {Made(IF r.panicked
                       THEN LoopState(r.pos, st.alpha, TRUE, "panic",
                                      Append(st.examined, Examined(m, TRUE, 0)))
                       ELSE IF -r.score >= beta
                       THEN LoopState(undo_move(r.pos), st.alpha, TRUE, "beta",
                                      Append(st.examined, Examined(m, TRUE, -r.score)))
                       ELSE LoopState(undo_move(r.pos),
                                      IF -r.score > st.alpha THEN -r.score ELSE st.alpha,
                                      TRUE, "",
                                      Append(st.examined, Examined(m, TRUE, -r.score))),
                       st, r.deepest, r.chain) :
                     r \in {negamax(made, depth - 1, -beta, -st.alpha, dbg)}} :
                 TRUE

RECURSIVE NegamaxLoop(_, _, _, _, _, _, _)
\* The for loop of negamax over the candidates lo..hi: the first half of
\* them, then the rest from the state the first half leaves.
NegamaxLoop(st, moves, lo, hi, depth, beta, dbg) ==
    IF lo > hi \/ st.left # "" THEN st
    ELSE IF lo = hi THEN NegamaxStep(st, moves[lo], depth, beta, dbg)
    ELSE CHOOSE rest \in
             {IF first.left # "" THEN first
              ELSE NegamaxLoop(first, moves, (lo + hi) \div 2 + 1, hi, depth, beta, dbg) :
                  first \in {NegamaxLoop(st, moves, lo, (lo + hi) \div 2, depth, beta, dbg)}} :
             TRUE

\* The end of negamax with every position without a legal move scored as lost.
NegamaxOverAlwaysMate(pos, moves, depth, alpha, beta, dbg) ==
    CHOOSE result \in
        {Returned(IF st.left = "panic" THEN SearchResult(0, st.pos, TRUE)
                  ELSE IF st.left = "beta" THEN SearchResult(beta, st.pos, FALSE)
                  ELSE IF ~st.any_legal_move THEN SearchResult(-INF, st.pos, FALSE)
                  ELSE SearchResult(st.alpha, st.pos, FALSE), st) :
            st \in {NegamaxLoop(LoopState(pos, alpha, FALSE, "", <<>>), moves, 1, Len(moves),
                                depth, beta, dbg)}} :
        TRUE

\* negamax once the candidates are generated and sorted.
NegamaxOver(pos, moves, depth, alpha, beta, dbg) ==
    CHOOSE result \in
        {Returned(IF st.left = "panic" THEN SearchResult(0, st.pos, TRUE)
                  ELSE IF st.left = "beta" THEN SearchResult(beta, st.pos, FALSE)
                  ELSE IF ~st.any_legal_move
                  THEN SearchResult(IF is_check(st.pos) THEN -INF ELSE 0, st.pos, FALSE)
                  ELSE SearchResult(st.alpha, st.pos, FALSE), st) :
            st \in {NegamaxLoop(LoopState(pos, alpha, FALSE, "", <<>>), moves, 1, Len(moves),
                                depth, beta, dbg)}} :
        TRUE

\* Position::negamax
negamax(pos, depth, alpha, beta, dbg) ==
    IF depth = 0 THEN quiescence_search(pos, alpha, beta, dbg)
    ELSE IF dbg /\ GeneratePanics(pos) THEN SearchResult(0, pos, TRUE)
    ELSE CHOOSE over \in
             {NegamaxOver(pos, moves, depth, alpha, beta, dbg) :
                 moves \in SortedMoves(pos, FALSE)} :
             TRUE

\* What the loop of search carries: the position, the best move and its score.
RootState(pos, best_move, max, panics) ==
    [pos |-> pos, best_move |-> best_move, max |-> max, panicked |-> panics,
     deepest |-> 0, chain |-> 0]

\* A root step that searches one ply deeper than asked below the made move.
SearchStepDeeper(st, m, depth, dbg) ==
    CHOOSE next \in
        {Made(IF r.panicked THEN RootState(r.pos, st.best_move, st.max, TRUE)
              ELSE IF -r.score > st.max THEN RootState(undo_move(r.pos), m, -r.score, FALSE)
              ELSE RootState(undo_move(r.pos), st.best_move, st.max, FALSE),
              st, r.deepest, r.chain) :
            r \in {negamax(make_bit_move(st.pos, m), depth + 1, -INF, INF, dbg)}} :
        TRUE

\* The body of the for loop of search for one legal move.
SearchStep(st, m, depth, dbg) ==
    CHOOSE next \in
        {Made(IF r.panicked THEN RootState(r.pos, st.best_move, st.max, TRUE)
              ELSE IF -r.score > st.max THEN RootState(undo_move(r.pos), m, -r.score, FALSE)
              ELSE RootState(undo_move(r.pos), st.best_move, st.max, FALSE),
              st, r.deepest, r.chain) :
            r \in {negamax(make_bit_move(st.pos, m), depth, -INF, INF, dbg)}} :
        TRUE

RECURSIVE SearchLoop(_, _, _, _, _, _)
\* The for loop of search over the legal moves lo..hi: the first half of
\* them, then the rest from the state the first half leaves.
SearchLoop(st, legal, lo, hi, depth, dbg) ==
    IF lo > hi \/ st.panicked THEN st
    ELSE IF lo = hi THEN SearchStep(st, legal[lo], depth, dbg)
    ELSE CHOOSE rest \in
             {IF first.panicked THEN first
              ELSE SearchLoop(first, legal, (lo + hi) \div 2 + 1, hi, depth, dbg) :
                  first \in {SearchLoop(st, legal, lo, (lo + hi) \div 2, depth, dbg)}} :
             TRUE

\* search, given what generate_legal_moves returned.
SearchFrom(r, depth, dbg) ==
    CHOOSE result \in
        {[move |-> IF st.panicked THEN NULL ELSE st.best_move,
          pos |-> st.pos, panicked |-> st.panicked,
          deepest |-> st.deepest, chain |-> st.chain] :
            st \in {SearchLoop(RootState(r.pos, NULL, -INF, FALSE), r.moves, 1, Len(r.moves),
                               depth, dbg)}} :
        TRUE

\* Position::search
search(pos, depth, dbg) ==
    IF dbg /\ GeneratePanics(pos)
    THEN [move |-> NULL, pos |-> pos, panicked |-> TRUE, deepest |-> 0, chain |-> 0]
    ELSE CHOOSE result \in
             {SearchFrom(r, depth, dbg) : r \in {generate_legal_moves(pos)}} :
             TRUE

(***************************************************************************)
(* perft.rs. perft takes the position by shared reference: it clones it    *)
(* for every move and cannot change it. A call returns the count and       *)
(* whether it panicked.                                                    *)
(***************************************************************************)
PerftResult(count, panics) == [count |-> count, panicked |-> panics]

RECURSIVE SumCounts(_, _, _)
\* count += ... over the results of the loop of perft for the moves lo..hi of
\* the list; children is the set of pairs of the place of a move in the list
\* and the result for it.
SumCounts(children, lo, hi) ==
    IF lo > hi THEN 0
    ELSE IF lo = hi THEN (CHOOSE c \in children : c[1] = lo)[2].count
    ELSE SumCounts(children, lo, (lo + hi) \div 2)
         + SumCounts(children, (lo + hi) \div 2 + 1, hi)

\* The results of perft one ply lower for the positions after each move of
\* the list: new_pos = pos.clone(); new_pos.make_bit_move(&m); perft(&new_pos, depth - 1).
RECURSIVE perft(_, _, _)
PerftChildren(pos, legal, depth, dbg) ==
    {<<i, perft(make_bit_move(pos, legal[i]), depth - 1, dbg)>> : i \in 1..Len(legal)}

\* perft::perft
perft(pos, depth, dbg) ==
    IF depth = 0 THEN PerftResult(1, FALSE)
    ELSE IF dbg /\ GeneratePanics(pos) THEN PerftResult(0, TRUE)
    ELSE CHOOSE result \in
             {IF depth = 1 THEN PerftResult(Len(legal), FALSE)
              ELSE CHOOSE total \in
                       {IF \E c \in children : c[2].panicked THEN PerftResult(0, TRUE)
                        ELSE PerftResult(SumCounts(children, 1, Len(legal)), FALSE) :
                           children \in {PerftChildren(pos, legal, depth, dbg)}} :
                       TRUE :
                 legal \in {generate_legal_moves(pos).moves}} :
             TRUE

(***************************************************************************)
(* Construction. from_fen places the pieces of a FEN string on the board,   *)
(* every other cell being the off-board sentinel, and caches the square of  *)
(* each king.                                                              *)
(***************************************************************************)
FileOf(letter) ==
    CASE letter = "a" -> 0 [] letter = "b" -> 1 [] letter = "c" -> 2 [] letter = "d" -> 3
      [] letter = "e" -> 4 [] letter = "f" -> 5 [] letter = "g" -> 6 [] letter = "h" -> 7
\* Square::from_algebraic_notation
At(letter, rank_number) == SquareNew(FileOf(letter), rank_number - 1)

\* parse_pieces: placed is a set of <<square, piece>> pairs.
parse_pieces(placed) ==
    [i \in 0..119 |->
        IF i \in RealSquares
        THEN IF \E pl \in placed : pl[1] = i
             THEN (CHOOSE pl \in placed : pl[1] = i)[2]
             ELSE EMPTY
        ELSE OFF_BOARD]

KingSquareOf(board, king) == CHOOSE sq \in RealSquares : board[sq] = king

\* Position::from_fen
from_fen(placed, active_color, castling_rights, en_passant_square, halfmove_clock, ply0) ==
    LET board == parse_pieces(placed)
    IN  [pieces |-> board,
         king_square |-> [c \in {WHITE, BLACK} |->
                             KingSquareOf(board, IF c = WHITE THEN W_KING ELSE B_KING)],
         side_to_move |-> active_color,
         ply |-> ply0,
         state |-> <<PositionStateNew(castling_rights, en_passant_square, halfmove_clock)>>]

\* r3k3/8/8/8/8/8/1n6/R3K3 w Qq - 0 1
FenCastleQueenSide ==
    from_fen({<<At("e", 1), W_KING>>, <<At("a", 1), W_ROOK>>,
              <<At("e", 8), B_KING>>, <<At("a", 8), B_ROOK>>, <<At("b", 2), B_KNIGHT>>},
             WHITE, WHITE_QUEEN_SIDE + BLACK_QUEEN_SIDE, NoSquare, 0, 0)
\* 4k2r/8/8/8/8/7N/8/4K2R b Kk - 0 1
FenCastleKingSide ==
    from_fen({<<At("e", 1), W_KING>>, <<At("h", 1), W_ROOK>>, <<At("h", 3), W_KNIGHT>>,
              <<At("e", 8), B_KING>>, <<At("h", 8), B_ROOK>>},
             BLACK, WHITE_KING_SIDE + BLACK_KING_SIDE, NoSquare, 0, 1)
\* 7k/3p4/8/4P3/8/8/8/7K b - - 0 1
FenEnPassant ==
    from_fen({<<At("h", 1), W_KING>>, <<At("e", 5), W_PAWN>>,
              <<At("h", 8), B_KING>>, <<At("d", 7), B_PAWN>>},
             BLACK, 0, NoSquare, 0, 1)
\* 7k/8/8/8/4p3/8/3P4/7K w - - 0 1
FenEnPassantBlack ==
    from_fen({<<At("h", 1), W_KING>>, <<At("d", 2), W_PAWN>>,
              <<At("h", 8), B_KING>>, <<At("e", 4), B_PAWN>>},
             WHITE, 0, NoSquare, 0, 0)
\* 5b2/6P1/2k5/4K3/8/8/8/8 w - - 3 92
FenPromotion ==
    from_fen({<<At("e", 5), W_KING>>, <<At("g", 7), W_PAWN>>,
              <<At("c", 6), B_KING>>, <<At("f", 8), B_BISHOP>>},
             WHITE, 0, NoSquare, 3, 182)
\* 8/8/2k5/4K3/8/8/4p3/8 b - - 0 90 (position.rs, test "promotion black")
FenPromotionBlack ==
    from_fen({<<At("e", 5), W_KING>>, <<At("c", 6), B_KING>>, <<At("e", 2), B_PAWN>>},
             BLACK, 0, NoSquare, 0, 179)
\* 7K/8/5k2/8/8/8/P7/8 w - - 1 60
FenEdgePawn ==
    from_fen({<<At("h", 8), W_KING>>, <<At("a", 2), W_PAWN>>, <<At("f", 6), B_KING>>},
             WHITE, 0, NoSquare, 1, 118)
\* k7/2K5/8/8/8/8/8/7R b - - 0 1
FenOnlyMove ==
    from_fen({<<At("c", 7), W_KING>>, <<At("h", 1), W_ROOK>>, <<At("a", 8), B_KING>>},
             BLACK, 0, NoSquare, 0, 1)
\* 8/k1K5/8/8/8/8/8/R7 b - - 2 2
FenCheckmate ==
    from_fen({<<At("c", 7), W_KING>>, <<At("a", 1), W_ROOK>>, <<At("a", 7), B_KING>>},
             BLACK, 0, NoSquare, 2, 3)

\* 4k3/8/8/8/8/8/8/R3K2R w KQ - 0 1
FenCastleBoth ==
    from_fen({<<At("e", 1), W_KING>>, <<At("a", 1), W_ROOK>>, <<At("h", 1), W_ROOK>>,
              <<At("e", 8), B_KING>>},
             WHITE, WHITE_KING_SIDE + WHITE_QUEEN_SIDE, NoSquare, 0, 0)

\* 4k3/8/8/8/8/8/P7/R3K3 w Q - 0 1
FenRookPawn ==
    from_fen({<<At("e", 1), W_KING>>, <<At("a", 1), W_ROOK>>, <<At("a", 2), W_PAWN>>,
              <<At("e", 8), B_KING>>},
             WHITE, WHITE_QUEEN_SIDE, NoSquare, 0, 0)

\* k7/2K5/1Q6/8/8/8/8/8 b - - 0 1
FenStalemate ==
    from_fen({<<At("c", 7), W_KING>>, <<At("b", 6), W_QUEEN>>, <<At("a", 8), B_KING>>},
             BLACK, 0, NoSquare, 0, 1)

\* The pieces of one rank of a FEN string, from the a-file to the h-file.
FenRank(rank_number, row) ==
    {<<SquareNew(f - 1, rank_number - 1), row[f]>> : f \in {x \in 1..8 : row[x] # EMPTY}}

EmptyRank == <<EMPTY, EMPTY, EMPTY, EMPTY, EMPTY, EMPTY, EMPTY, EMPTY>>
\* fen::STARTING_FEN, rnbqkbnr/pppppppp/8/8/8/8/PPPPPPPP/RNBQKBNR w KQkq - 0 1
FenStarting ==
    from_fen(FenRank(8, <<B_ROOK, B_KNIGHT, B_BISHOP, B_QUEEN, B_KING, B_BISHOP, B_KNIGHT, B_ROOK>>)
             \cup FenRank(7, <<B_PAWN, B_PAWN, B_PAWN, B_PAWN, B_PAWN, B_PAWN, B_PAWN, B_PAWN>>)
             \cup FenRank(2, <<W_PAWN, W_PAWN, W_PAWN, W_PAWN, W_PAWN, W_PAWN, W_PAWN, W_PAWN>>)
             \cup FenRank(1, <<W_ROOK, W_KNIGHT, W_BISHOP, W_QUEEN, W_KING, W_BISHOP, W_KNIGHT, W_ROOK>>),
             WHITE, WHITE_KING_SIDE + WHITE_QUEEN_SIDE + BLACK_KING_SIDE + BLACK_QUEEN_SIDE,
             NoSquare, 0, 0)
\* POS_2 of the perft tests (kiwipete),
\* r3k2r/p1ppqpb1/bn2pnp1/3PN3/1p2P3/2N2Q1p/PPPBBPPP/R3K2R w KQkq - 0 1
FenKiwipete ==
    from_fen(FenRank(8, <<B_ROOK, EMPTY, EMPTY, EMPTY, B_KING, EMPTY, EMPTY, B_ROOK>>)
             \cup FenRank(7, <<B_PAWN, EMPTY, B_PAWN, B_PAWN, B_QUEEN, B_PAWN, B_BISHOP, EMPTY>>)
             \cup FenRank(6, <<B_BISHOP, B_KNIGHT, EMPTY, EMPTY, B_PAWN, B_KNIGHT, B_PAWN, EMPTY>>)
             \cup FenRank(5, <<EMPTY, EMPTY, EMPTY, W_PAWN, W_KNIGHT, EMPTY, EMPTY, EMPTY>>)
             \cup FenRank(4, <<EMPTY, B_PAWN, EMPTY, EMPTY, W_PAWN, EMPTY, EMPTY, EMPTY>>)
             \cup FenRank(3, <<EMPTY, EMPTY, W_KNIGHT, EMPTY, EMPTY, W_QUEEN, EMPTY, B_PAWN>>)
             \cup FenRank(2, <<W_PAWN, W_PAWN, W_PAWN, W_BISHOP, W_BISHOP, W_PAWN, W_PAWN, W_PAWN>>)
             \cup FenRank(1, <<W_ROOK, EMPTY, EMPTY, EMPTY, W_KING, EMPTY, EMPTY, W_ROOK>>),
             WHITE, WHITE_KING_SIDE + WHITE_QUEEN_SIDE + BLACK_KING_SIDE + BLACK_QUEEN_SIDE,
             NoSquare, 0, 0)

InitialPositions ==
    {FenCastleQueenSide, FenCastleKingSide, FenEnPassant, FenEnPassantBlack,
     FenPromotion, FenPromotionBlack, FenEdgePawn, FenOnlyMove, FenCheckmate,
     FenCastleBoth}

\* The positions perft is called on.
PerftPositions == InitialPositions \cup {FenStarting, FenKiwipete}

(***************************************************************************)
(* The state machine.                                                      *)
(***************************************************************************)
\* The most makes outstanding (made and not yet undone).
MaxPlies == 2
\* The deepest search asked for.
MaxDepth == 2
MaxPerftDepth == 2

VARIABLES
    pieces,            \* Position.pieces
    king_square,       \* Position.king_square
    side_to_move,      \* Position.side_to_move
    ply,               \* Position.ply
    state,             \* Position.state and its prev_state chain
    moves,             \* the MoveList the caller holds from generate_legal_moves
    debug_assertions,  \* whether the build checks overflow and debug_assert!
    panicked,          \* a panic has unwound the program
    last,              \* the operation that produced this state
    before,            \* the position the last operation was called on
    snaps              \* the positions each outstanding make was called on

vars == <<pieces, king_square, side_to_move, ply, state, moves, debug_assertions,
          panicked, last, before, snaps>>

Pos ==
    [pieces |-> pieces, king_square |-> king_square, side_to_move |-> side_to_move,
     ply |-> ply, state |-> state]

SetPos(pos) ==
    /\ pieces' = pos.pieces
    /\ king_square' = pos.king_square
    /\ side_to_move' = pos.side_to_move
    /\ ply' = pos.ply
    /\ state' = pos.state

NoParsed == ParsedMove(NoSquare, NoSquare, NoPromotion)
Op(name, m, parsed, ret) ==
    [op |-> name, m |-> m, parsed |-> parsed, ret |-> ret, depth |-> 0, count |-> 0,
     deepest |-> 0, chain |-> 0]

Init ==
    /\ \E pos \in InitialPositions :
          /\ pieces = pos.pieces
          /\ king_square = pos.king_square
          /\ side_to_move = pos.side_to_move
          /\ ply = pos.ply
          /\ state = pos.state
          /\ before = pos
    /\ moves = <<>>
    /\ debug_assertions \in BOOLEAN
    /\ panicked = FALSE
    /\ last = Op("from_fen", NoMove, NoParsed, TRUE)
    /\ snaps = <<>>

\* No panic has unwound the program and the engine has not yet made the move
\* it searched: the model follows main up to the engine's first move.
MainRuns == ~panicked /\ last.op # "make_searched_move"

\* A caller runs generate_legal_moves and keeps the list.
GenerateLegalMoves ==
    /\ MainRuns
    /\ last.op # "generate_legal_moves"
    /\ ~(debug_assertions /\ GeneratePanics(Pos))
    /\ \E r \in {generate_legal_moves(Pos)} :
          /\ SetPos(r.pos)
          /\ moves' = r.moves
    /\ before' = Pos
    /\ last' = Op("generate_legal_moves", NoMove, NoParsed, TRUE)
    /\ UNCHANGED <<debug_assertions, panicked, snaps>>

\* generate_legal_moves in a build with debug assertions, on a position where
\* packing a candidate panics.
GenerateLegalMovesPanic ==
    /\ MainRuns
    /\ last.op # "generate_legal_moves"
    /\ debug_assertions /\ GeneratePanics(Pos)
    /\ panicked' = TRUE
    /\ before' = Pos
    /\ last' = Op("generate_legal_moves", NoMove, NoParsed, FALSE)
    /\ UNCHANGED <<pieces, king_square, side_to_move, ply, state, moves,
                   debug_assertions, snaps>>

\* The caller plays one move of the list it holds (perft, search, main).
MakeBitMove ==
    /\ ~panicked
    /\ last.op = "generate_legal_moves"
    /\ Len(snaps) < MaxPlies
    /\ \E i \in 1..Len(moves) : \E made \in {make_bit_move(Pos, moves[i])} :
          /\ SetPos(made)
          /\ last' = Op("make_bit_move", moves[i], NoParsed, TRUE)
    /\ moves' = <<>>
    /\ before' = Pos
    /\ snaps' = Append(snaps, Pos)
    /\ UNCHANGED <<debug_assertions, panicked>>

\* Position::undo_move with a move to undo.
UndoMove ==
    /\ MainRuns
    /\ ~UndoPanics(Pos)
    /\ \E undone \in {undo_move(Pos)} : SetPos(undone)
    /\ last' = Op("undo_move", CurrentState(Pos).prev_move, NoParsed, TRUE)
    /\ moves' = <<>>
    /\ before' = Pos
    /\ snaps' = SubSeq(snaps, 1, Len(snaps) - 1)
    /\ UNCHANGED <<debug_assertions, panicked>>

\* undo_move that returns when there is no move to undo (if let Some(m) in
\* place of unwrap()).
UndoMoveEmptyReturns ==
    /\ MainRuns
    /\ UndoPanics(Pos)
    /\ side_to_move' = Not(side_to_move)
    /\ ply' = IF ply > 0 THEN ply - 1 ELSE IF debug_assertions THEN ply ELSE 65535
    /\ last' = Op("undo_move", NoMove, NoParsed, TRUE)
    /\ before' = Pos
    /\ UNCHANGED <<pieces, king_square, state, moves, debug_assertions, snaps, panicked>>

\* Position::undo_move on the record the position was constructed with: side
\* and ply are already changed when prev_move.unwrap() panics.
UndoMovePanic ==
    /\ MainRuns
    /\ UndoPanics(Pos)
    /\ side_to_move' = Not(side_to_move)
    /\ ply' = IF ply > 0 THEN ply - 1 ELSE IF debug_assertions THEN ply ELSE 65535
    /\ panicked' = TRUE
    /\ last' = Op("undo_move", NoMove, NoParsed, FALSE)
    /\ before' = Pos
    /\ UNCHANGED <<pieces, king_square, state, moves, debug_assertions, snaps>>

\* The moves a user may type: every pseudo-legal move of the position as
\* coordinate notation, and every promotion also without its piece letter.
ParsedInputs(pos) ==
    LET cands == generate_pseudo_legal_moves(pos)
    IN  {ParsedMove(origin(cands[i]), target(cands[i]),
                    IF is_promotion(cands[i]) THEN promotion_piece(cands[i])
                    ELSE NoPromotion) : i \in 1..Len(cands)}
        \cup {ParsedMove(origin(cands[i]), target(cands[i]), NoPromotion) : i \in 1..Len(cands)}

\* legal_moves.iter().find(|bm| *bm == &m): the index of the first match, 0 if none.
FindMove(list, parsed) ==
    IF \E i \in 1..Len(list) : BitMoveEqParsed(list[i], parsed)
    THEN CHOOSE i \in 1..Len(list) :
            /\ BitMoveEqParsed(list[i], parsed)
            /\ \A j \in 1..(i - 1) : ~BitMoveEqParsed(list[j], parsed)
    ELSE 0

\* Position::make_move after its call of generate_legal_moves returned r: the
\* value returned, the move played and the position left.
MakeMoveFrom(r, parsed) ==
    LET i == FindMove(r.moves, parsed)
    IN  IF i # 0
        THEN [ret |-> TRUE, m |-> r.moves[i], parsed |-> parsed,
              pos |-> make_bit_move(r.pos, r.moves[i])]
        ELSE [ret |-> FALSE, m |-> NoMove, parsed |-> parsed, pos |-> r.pos]

\* Position::make_move
make_move(pos, parsed) == MakeMoveFrom(generate_legal_moves(pos), parsed)

\* Position::make_move, called on a position the caller has just constructed,
\* made a move on or undone a move on (main.rs reads a move and calls it).
MakeMove ==
    /\ MainRuns
    /\ last.op # "generate_legal_moves"
    /\ Len(snaps) < MaxPlies
    /\ ~(debug_assertions /\ GeneratePanics(Pos))
    /\ \E r \in {generate_legal_moves(Pos)} :
          \E results \in {{MakeMoveFrom(r, parsed) : parsed \in ParsedInputs(Pos)}} :
              \E res \in results :
                  /\ SetPos(res.pos)
                  /\ last' = Op("make_move", res.m, res.parsed, res.ret)
                  /\ snaps' = IF res.ret THEN Append(snaps, Pos) ELSE snaps
    /\ moves' = <<>>
    /\ before' = Pos
    /\ UNCHANGED <<debug_assertions, panicked>>

\* Position::search on a position just constructed; ret is FALSE when the call
\* panicked and did not return.
Search ==
    /\ ~panicked
    /\ last.op = "from_fen"
    /\ \E depth \in 1..MaxDepth :
          \E res \in {search(Pos, depth, debug_assertions)} :
              /\ SetPos(res.pos)
              /\ panicked' = res.panicked
              /\ last' = [Op("search", res.move, NoParsed, ~res.panicked)
                             EXCEPT !.depth = depth, !.deepest = res.deepest,
                                    !.chain = res.chain]
    /\ moves' = <<>>
    /\ before' = Pos
    /\ UNCHANGED <<debug_assertions, snaps>>

\* main: let m = pos.search(4); pos.make_bit_move(m). The move search returned
\* is made without a look at it. Nothing is pushed and ply stays if the
\* origin cell holds no piece.
MakeSearchedMove ==
    /\ ~panicked
    /\ last.op = "search"
    /\ Len(snaps) < MaxPlies
    /\ \E made \in {make_bit_move(Pos, last.m)} :
          /\ SetPos(made)
          /\ snaps' = IF made = Pos THEN snaps ELSE Append(snaps, Pos)
    /\ last' = Op("make_searched_move", last.m, NoParsed, TRUE)
    /\ moves' = <<>>
    /\ before' = Pos
    /\ UNCHANGED <<debug_assertions, panicked>>

Next ==
    \/ GenerateLegalMoves
    \/ GenerateLegalMovesPanic
    \/ MakeBitMove
    \/ UndoMove
    \/ UndoMovePanic
    \/ MakeMove
    \/ Search
    \/ MakeSearchedMove

Spec == Init /\ [][Next]_vars

(***************************************************************************)
(* perft called on a position just constructed and on the positions its    *)
(* loop makes from it.                                                     *)
(***************************************************************************)
PerftInit ==
    /\ \E pos \in PerftPositions :
          /\ pieces = pos.pieces
          /\ king_square = pos.king_square
          /\ side_to_move = pos.side_to_move
          /\ ply = pos.ply
          /\ state = pos.state
          /\ before = pos
    /\ moves = <<>>
    /\ debug_assertions \in BOOLEAN
    /\ panicked = FALSE
    /\ last = Op("from_fen", NoMove, NoParsed, TRUE)
    /\ snaps = <<>>

\* perft(&pos, depth); ret is FALSE when the call panicked.
Perft ==
    /\ ~panicked
    /\ last.op \in {"from_fen", "perft_loop"}
    /\ \E depth \in 0..(MaxPerftDepth - Len(snaps)) :
          \E res \in {perft(Pos, depth, debug_assertions)} :
              /\ panicked' = res.panicked
              /\ last' = [Op("perft", NoMove, NoParsed, ~res.panicked)
                             EXCEPT !.depth = depth, !.count = res.count]
    /\ before' = Pos
    /\ UNCHANGED <<pieces, king_square, side_to_move, ply, state, moves,
                   debug_assertions, snaps>>

\* The body of the loop of perft for one legal move: new_pos = pos.clone();
\* new_pos.make_bit_move(&m). The model goes on with new_pos.
PerftLoop ==
    /\ ~panicked
    /\ last.op = "from_fen"
    /\ Len(snaps) < MaxPerftDepth - 1
    /\ ~(debug_assertions /\ GeneratePanics(Pos))
    /\ \E legal \in {generate_legal_moves(Pos).moves} :
          \E i \in 1..Len(legal) :
              /\ SetPos(make_bit_move(Pos, legal[i]))
              /\ last' = Op("perft_loop", legal[i], NoParsed, TRUE)
    /\ moves' = <<>>
    /\ before' = Pos
    /\ snaps' = Append(snaps, Pos)
    /\ UNCHANGED <<debug_assertions, panicked>>

PerftNext ==
    \/ Perft
    \/ PerftLoop

PerftSpec == PerftInit /\ [][PerftNext]_vars

(***************************************************************************)
(* BitMove::new called with every origin, target and MoveFlags, as the     *)
(* test bitmove_new calls it with thirteen of them.  No position takes     *)
(* part; the position variables hold the starting position throughout.     *)
(***************************************************************************)
BitMoveInit ==
    /\ pieces = FenStarting.pieces
    /\ king_square = FenStarting.king_square
    /\ side_to_move = FenStarting.side_to_move
    /\ ply = FenStarting.ply
    /\ state = FenStarting.state
    /\ before = FenStarting
    /\ moves = <<>>
    /\ debug_assertions \in BOOLEAN
    /\ panicked = FALSE
    /\ last = Op("from_fen", NoMove, NoParsed, TRUE)
    /\ snaps = <<>>

\* let bm = BitMove::new(origin, target, flags); last keeps the arguments.
BitmoveNew ==
    /\ last.op = "from_fen"
    /\ \E org \in RealSquares, tgt \in RealSquares, move_flags \in MoveFlags :
          last' = [op |-> "bitmove_new", m |-> BitMoveNew(org, tgt, move_flags),
                   parsed |-> ParsedMove(org, tgt, NoPromotion), ret |-> TRUE,
                   depth |-> 0, count |-> 0, deepest |-> 0, chain |-> 0,
                   flags |-> move_flags]
    /\ UNCHANGED <<pieces, king_square, side_to_move, ply, state, moves,
                   debug_assertions, panicked, before, snaps>>

BitMoveNext == BitmoveNew

BitMoveSpec == BitMoveInit /\ [][BitMoveNext]_vars

(***************************************************************************)
(* CastlingRights::update called on a value of the sixteen rights values   *)
(* for the origin and then for the target of a move, as make_bit_move      *)
(* calls its closure remove_castling_rights.  No position takes part; the  *)
(* position variables hold the starting position throughout.               *)
(***************************************************************************)
CastlingInit ==
    /\ pieces = FenStarting.pieces
    /\ king_square = FenStarting.king_square
    /\ side_to_move = FenStarting.side_to_move
    /\ ply = FenStarting.ply
    /\ state = FenStarting.state
    /\ before = FenStarting
    /\ moves = <<>>
    /\ debug_assertions = FALSE
    /\ panicked = FALSE
    /\ last = Op("from_fen", NoMove, NoParsed, TRUE)
    /\ snaps = <<>>

\* rights.update(origin); rights.update(target); last keeps the arguments and
\* the value after each call.
Update ==
    /\ last.op = "from_fen"
    /\ \E cr \in 0..15, org \in RealSquares, tgt \in RealSquares :
          last' = [op |-> "update", m |-> NoMove,
                   parsed |-> ParsedMove(org, tgt, NoPromotion), ret |-> TRUE,
                   depth |-> 0, count |-> 0, deepest |-> 0, chain |-> 0,
                   rights |-> cr, after_origin |-> update(cr, org),
                   after_both |-> update(update(cr, org), tgt)]
    /\ UNCHANGED <<pieces, king_square, side_to_move, ply, state, moves,
                   debug_assertions, panicked, before, snaps>>

CastlingNext == Update

CastlingSpec == CastlingInit /\ [][CastlingNext]_vars

(***************************************************************************)
(* negamax and quiescence_search called on a position just constructed,    *)
(* with every depth up to MaxDepth and every window alpha < beta over      *)
(* WindowBounds.  search calls negamax with the window (-INF, INF) and     *)
(* negamax calls itself and quiescence_search with narrower ones.          *)
(***************************************************************************)
NegamaxPositions == InitialPositions \cup {FenStalemate}
WindowBounds == {-INF, -100, 0, 100, INF}

NegamaxInit ==
    /\ \E pos \in NegamaxPositions :
          /\ pieces = pos.pieces
          /\ king_square = pos.king_square
          /\ side_to_move = pos.side_to_move
          /\ ply = pos.ply
          /\ state = pos.state
          /\ before = pos
    /\ moves = <<>>
    /\ debug_assertions \in BOOLEAN
    /\ panicked = FALSE
    /\ last = Op("from_fen", NoMove, NoParsed, TRUE)
    /\ snaps = <<>>

\* The loop of a call of negamax with depth >= 1 as it was left: alpha,
\* any_legal_move, how it ended and the moves it has made.
NegamaxTrace(pos, depth, alpha, beta, dbg) ==
    CHOOSE st \in
        {NegamaxLoop(LoopState(pos, alpha, FALSE, "", <<>>), list, 1, Len(list),
                     depth, beta, dbg) : list \in SortedMoves(pos, FALSE)} :
        TRUE

\* The loop of a call of quiescence_search that got as far as its loop.
QuiescenceTrace(pos, alpha, beta) ==
    CHOOSE st \in
        {QuiescenceLoop(LoopState(pos, IF evaluate(pos) > alpha THEN evaluate(pos) ELSE alpha,
                                  FALSE, "", <<>>),
                        list, 1, Len(list), beta) : list \in SortedMoves(pos, TRUE)} :
        TRUE

\* What last keeps of a call of negamax or quiescence_search: the arguments,
\* the value returned, the sorted list and the moves the loop has made.
SearchCall(name, depth, alpha, beta, res, list, examined, any_legal_move) ==
    [op |-> name, m |-> NoMove, parsed |-> NoParsed, ret |-> ~res.panicked,
     depth |-> depth, count |-> 0, deepest |-> res.deepest, chain |-> res.chain,
     alpha |-> alpha, beta |-> beta, score |-> res.score,
     list |-> list, examined |-> examined, any_legal_move |-> any_legal_move]

\* self.negamax(depth, alpha, beta) with depth >= 1
Negamax ==
    /\ ~panicked
    /\ last.op = "from_fen"
    /\ \E depth \in 1..MaxDepth, alpha \in WindowBounds, beta \in WindowBounds :
          /\ alpha < beta
          /\ \E res \in {negamax(Pos, depth, alpha, beta, debug_assertions)} :
                /\ SetPos(res.pos)
                /\ panicked' = res.panicked
                /\ \E list \in SortedMoves(Pos, FALSE) :
                      \E st \in {IF res.panicked THEN LoopState(Pos, alpha, FALSE, "panic", <<>>)
                                 ELSE NegamaxTrace(Pos, depth, alpha, beta, debug_assertions)} :
                          last' = SearchCall("negamax", depth, alpha, beta, res, list,
                                             st.examined, st.any_legal_move)
    /\ moves' = <<>>
    /\ before' = Pos
    /\ UNCHANGED <<debug_assertions, snaps>>

\* self.quiescence_search(alpha, beta)
QuiescenceSearch ==
    /\ ~panicked
    /\ last.op = "from_fen"
    /\ \E alpha \in WindowBounds, beta \in WindowBounds :
          /\ alpha < beta
          /\ \E res \in {quiescence_search(Pos, alpha, beta, debug_assertions)} :
                /\ SetPos(res.pos)
                /\ panicked' = res.panicked
                /\ \E list \in SortedMoves(Pos, TRUE) :
                      \E st \in {IF res.panicked \/ evaluate(Pos) >= beta
                                 THEN LoopState(Pos, alpha, FALSE, "", <<>>)
                                 ELSE QuiescenceTrace(Pos, alpha, beta)} :
                          last' = SearchCall("quiescence_search", 0, alpha, beta, res, list,
                                             st.examined, st.any_legal_move)
    /\ moves' = <<>>
    /\ before' = Pos
    /\ UNCHANGED <<debug_assertions, snaps>>

NegamaxNext ==
    \/ Negamax
    \/ QuiescenceSearch

NegamaxSpec == NegamaxInit /\ [][NegamaxNext]_vars

(***************************************************************************)
(* A game: the caller generates the legal moves, plays one of them, and    *)
(* may take the move back at once.  The game is followed from the starting *)
(* position and from positions later in a game, each a position of chess   *)
(* that legal moves lead to from the starting position, with the castling  *)
(* rights and the en-passant square such a game leaves.                    *)
(***************************************************************************)
MaxGamePlies == 3
MaxOpeningPlies == 2

GamePositions == {FenStarting, FenRookPawn, FenEdgePawn, FenEnPassant, FenEnPassantBlack}

\* The plies the game is followed for: fewer from the starting position (the
\* one with all four rights in its first record), whose lists are long.
PliesFollowed ==
    IF state[1] = FenStarting.state[1] THEN MaxOpeningPlies ELSE MaxGamePlies

\* Position::new() or from_fen of a later position, in either build.
GameInit ==
    /\ \E pos \in GamePositions :
          /\ pieces = pos.pieces
          /\ king_square = pos.king_square
          /\ side_to_move = pos.side_to_move
          /\ ply = pos.ply
          /\ state = pos.state
          /\ before = pos
    /\ moves = <<>>
    /\ debug_assertions \in BOOLEAN
    /\ panicked = FALSE
    /\ last = Op("from_fen", NoMove, NoParsed, TRUE)
    /\ snaps = <<>>

\* The caller plays one move of the list generate_legal_moves gave it.
PlayBitMove ==
    /\ ~panicked
    /\ last.op = "generate_legal_moves"
    /\ Len(snaps) < PliesFollowed
    /\ \E i \in 1..Len(moves) : \E made \in {make_bit_move(Pos, moves[i])} :
          /\ SetPos(made)
          /\ last' = Op("make_bit_move", moves[i], NoParsed, TRUE)
    /\ moves' = <<>>
    /\ before' = Pos
    /\ snaps' = Append(snaps, Pos)
    /\ UNCHANGED <<debug_assertions, panicked>>

\* The caller takes back the move it has just played.
TakeBack == last.op = "make_bit_move" /\ UndoMove

GameNext ==
    \/ GenerateLegalMoves
    \/ GenerateLegalMovesPanic
    \/ PlayBitMove
    \/ TakeBack

GameSpec == GameInit /\ [][GameNext]_vars

(***************************************************************************)
(* The rules of chess, stated on files and ranks.  Nothing below is used   *)
(* by the model of the program; the properties compare the program to it.  *)
(***************************************************************************)
Abs(x) == IF x < 0 THEN -x ELSE x
Sgn(x) == IF x < 0 THEN -1 ELSE IF x > 0 THEN 1 ELSE 0
Max(x, y) == IF x > y THEN x ELSE y
RefCell(file, rank) == 21 + file + 10 * rank
RefFile(sq) == (sq % 10) - 1
RefRank(sq) == (sq \div 10) - 2
RefKing(c) == IF c = WHITE THEN W_KING ELSE B_KING
RefOwn(board, sq, c) == is_piece(board[sq]) /\ color(board[sq]) = c
RefForward(c) == IF c = WHITE THEN 1 ELSE -1

\* Every cell strictly between two aligned squares is empty.
RefPathClear(board, from, to) ==
    LET df == RefFile(to) - RefFile(from)
        dr == RefRank(to) - RefRank(from)
    IN  \A k \in 1..(Max(Abs(df), Abs(dr)) - 1) :
            board[RefCell(RefFile(from) + k * Sgn(df), RefRank(from) + k * Sgn(dr))] = EMPTY

\* The piece standing on from attacks the square to.
RefAttacks(board, from, to) ==
    LET df == RefFile(to) - RefFile(from)
        dr == RefRank(to) - RefRank(from)
        t == piece_type(board[from])
        straight == (df = 0 /\ dr # 0) \/ (dr = 0 /\ df # 0)
        diagonal == Abs(df) = Abs(dr) /\ df # 0
    IN  CASE t = PAWN -> Abs(df) = 1 /\ dr = RefForward(color(board[from]))
          [] t = KNIGHT -> {Abs(df), Abs(dr)} = {1, 2}
          [] t = KING -> Max(Abs(df), Abs(dr)) = 1
          [] t = BISHOP -> diagonal /\ RefPathClear(board, from, to)
          [] t = ROOK -> straight /\ RefPathClear(board, from, to)
          [] t = QUEEN -> (straight \/ diagonal) /\ RefPathClear(board, from, to)
          [] OTHER -> FALSE

\* Some piece of colour by attacks sq.
RefAttacked(board, sq, by) ==
    \E from \in RealSquares : RefOwn(board, from, by) /\ RefAttacks(board, from, sq)

\* The king of colour c stands on an attacked square.
RefInCheck(board, c) ==
    \E sq \in RealSquares : board[sq] = RefKing(c) /\ RefAttacked(board, sq, Not(c))

\* A move as the rules see it: where from, where to, and the piece promoted to.
RefMove(from, to, promo) == [origin |-> from, target |-> to, promotion_piece |-> promo]
RefLastRank(c) == IF c = WHITE THEN 7 ELSE 0
RefPawnHomeRank(c) == IF c = WHITE THEN 1 ELSE 6

\* The pawn on from may capture en passant on to.
RefIsEnPassant(pos, from, to) ==
    LET c == pos.side_to_move
    IN  /\ piece_type(pos.pieces[from]) = PAWN
        /\ Abs(RefFile(to) - RefFile(from)) = 1
        /\ RefRank(to) - RefRank(from) = RefForward(c)
        /\ CurrentState(pos).ep_square = to
        /\ pos.pieces[to] = EMPTY
        /\ pos.pieces[RefCell(RefFile(to), RefRank(from))] = NewPiece(PAWN, Not(c))

\* The piece on from may move to to, castling aside and check aside.
RefMayMove(pos, from, to) ==
    LET board == pos.pieces
        c == pos.side_to_move
        df == RefFile(to) - RefFile(from)
        dr == RefRank(to) - RefRank(from)
    IN  /\ from # to
        /\ RefOwn(board, from, c)
        /\ ~RefOwn(board, to, c)
        /\ IF piece_type(board[from]) = PAWN
           THEN \/ df = 0 /\ dr = RefForward(c) /\ board[to] = EMPTY
                \/ /\ df = 0 /\ dr = 2 * RefForward(c)
                   /\ RefRank(from) = RefPawnHomeRank(c)
                   /\ board[to] = EMPTY
                   /\ board[RefCell(RefFile(from), RefRank(from) + RefForward(c))] = EMPTY
                \/ /\ Abs(df) = 1 /\ dr = RefForward(c)
                   /\ RefOwn(board, to, Not(c))
                \/ RefIsEnPassant(pos, from, to)
           ELSE /\ RefAttacks(board, from, to)

\* The squares of a castling: king from and to, rook from and to, and the
\* squares that must be empty.
RefCastlings(c) ==
    IF c = WHITE
    THEN {[right |-> WHITE_KING_SIDE, king |-> E1, to |-> G1, rook |-> H1, rook_to |-> F1,
           empty |-> {F1, G1}, safe |-> {E1, F1, G1}],
          [right |-> WHITE_QUEEN_SIDE, king |-> E1, to |-> C1, rook |-> A1, rook_to |-> D1,
           empty |-> {B1, C1, D1}, safe |-> {E1, D1, C1}]}
    ELSE {[right |-> BLACK_KING_SIDE, king |-> E8, to |-> G8, rook |-> H8, rook_to |-> F8,
           empty |-> {F8, G8}, safe |-> {E8, F8, G8}],
          [right |-> BLACK_QUEEN_SIDE, king |-> E8, to |-> C8, rook |-> A8, rook_to |-> D8,
           empty |-> {B8, C8, D8}, safe |-> {E8, D8, C8}]}

\* The side to move may castle as k says.
RefMayCastle(pos, k) ==
    LET board == pos.pieces
        c == pos.side_to_move
    IN  /\ HasRight(CurrentState(pos).castling_rights, k.right)
        /\ board[k.king] = RefKing(c)
        /\ board[k.rook] = NewPiece(ROOK, c)
        /\ \A sq \in k.empty : board[sq] = EMPTY
        /\ \A sq \in k.safe : ~RefAttacked(board, sq, Not(c))

\* The board after the move, by the rules.
RefApply(pos, mv) ==
    LET board == pos.pieces
        c == pos.side_to_move
        p == board[mv.origin]
        castle == piece_type(p) = KING /\ Abs(RefFile(mv.target) - RefFile(mv.origin)) = 2
        k == CHOOSE x \in RefCastlings(c) : castle => x.to = mv.target
        ep == RefIsEnPassant(pos, mv.origin, mv.target)
    IN  [i \in 0..119 |->
            IF i = mv.origin THEN EMPTY
            ELSE IF i = mv.target
                 THEN IF mv.promotion_piece # NoPromotion
                      THEN NewPiece(mv.promotion_piece, c) ELSE p
            ELSE IF ep /\ i = RefCell(RefFile(mv.target), RefRank(mv.origin)) THEN EMPTY
            ELSE IF castle /\ i = k.rook THEN EMPTY
            ELSE IF castle /\ i = k.rook_to THEN NewPiece(ROOK, c)
            ELSE board[i]]

\* The moves the rules allow before looking at check.
RefPseudoLegalMoves(pos) ==
    LET c == pos.side_to_move
        own == {sq \in RealSquares : RefOwn(pos.pieces, sq, c)}
        steps == {ft \in own \X RealSquares : RefMayMove(pos, ft[1], ft[2])}
        promoting(ft) == /\ piece_type(pos.pieces[ft[1]]) = PAWN
                         /\ RefRank(ft[2]) = RefLastRank(c)
    IN  {RefMove(ft[1], ft[2], NoPromotion) : ft \in {x \in steps : ~promoting(x)}}
        \cup {RefMove(ftp[1][1], ftp[1][2], ftp[2]) :
                 ftp \in {x \in steps : promoting(x)} \X {KNIGHT, BISHOP, ROOK, QUEEN}}
        \cup {RefMove(k.king, k.to, NoPromotion) :
                 k \in {x \in RefCastlings(c) : RefMayCastle(pos, x)}}

\* The legal moves of the position, by the rules.
RefLegalMoves(pos) ==
    {mv \in RefPseudoLegalMoves(pos) : ~RefInCheck(RefApply(pos, mv), pos.side_to_move)}

\* A packed move as the rules see it.
RefOf(m) ==
    RefMove(origin(m), target(m), IF is_promotion(m) THEN promotion_piece(m) ELSE NoPromotion)

(***************************************************************************)
(* Properties.                                                             *)
(***************************************************************************)
\* The position a move was made on, for a state reached by a make.
MadeOn == snaps[Len(snaps)]
\* The last operation made a move.
JustMade == ~panicked /\ last.op \in {"make_bit_move", "make_move"} /\ last.ret
\* The last operation returned a list of legal moves.
JustGenerated == ~panicked /\ last.op = "generate_legal_moves" /\ last.ret
MoveSet(list) == {list[i] : i \in 1..Len(list)}

\* C1: for every move m of the list generate_legal_moves returns in a
\* position, make_bit_move(m) followed at once by undo_move on that position
\* gives the position back: the 120 cells, both king_square entries,
\* side_to_move, ply and the state record.
C1_MakeUndoRestores ==
    JustGenerated =>
        \A m \in MoveSet(moves) : undo_move(make_bit_move(before, m)) = before

\* The same round trip on the object generate_legal_moves has just run on,
\* which has made and undone every candidate once already.
MakeUndoAfterGeneration ==
    (~panicked /\ last.op = "make_bit_move") => undo_move(Pos) = MadeOn

\* C2: after make_bit_move of a move generate_legal_moves returned, the
\* king of the side that moved does not stand on a square the opponent attacks.
C2_NoSelfCheck ==
    (~panicked /\ last.op = "make_bit_move") => ~RefInCheck(pieces, Not(side_to_move))

\* C3: generate_legal_moves returns exactly the moves that are legal under
\* the rules of chess, each once.
C3_ExactlyLegalMoves ==
    JustGenerated =>
        /\ {RefOf(m) : m \in MoveSet(moves)} = RefLegalMoves(before)
        /\ \A i, j \in 1..Len(moves) : RefOf(moves[i]) = RefOf(moves[j]) => i = j

\* C4: generate_legal_moves leaves the position as it found it: cells,
\* king_square, side_to_move, ply and the state record.
C4_GenerateNoNetEffect ==
    JustGenerated => Pos = before

\* The legal moves of the position make_move was called on that equal the
\* typed move on origin, target and promotion piece.
Matching == {mv \in RefLegalMoves(before) : mv = last.parsed}

\* C5: make_move returns false and leaves the position unchanged when no
\* legal move equals the typed move on origin, target and promotion piece;
\* otherwise it returns true and the position is the one after that move.
C5_MakeMove ==
    (~panicked /\ last.op = "make_move") =>
        IF Matching = {}
        THEN ~last.ret /\ Pos = before
        ELSE /\ last.ret
             /\ pieces = RefApply(before, last.parsed)
             /\ side_to_move = Not(before.side_to_move)
             /\ ply = before.ply + 1

\* C6: a castling move is generated only if its right is set, the side to
\* move is not in check, the squares between king and rook are empty and the
\* squares the king crosses and lands on are not attacked by the opponent.
C6_CastleOnlyIf ==
    JustGenerated =>
        \A m \in MoveSet(generate_pseudo_legal_moves(before)) :
            is_castle(m) =>
                \E k \in RefCastlings(before.side_to_move) :
                    /\ origin(m) = k.king /\ target(m) = k.to
                    /\ is_king_side_castle(m) <=> k.right \in {WHITE_KING_SIDE, BLACK_KING_SIDE}
                    /\ HasRight(CurrentState(before).castling_rights, k.right)
                    /\ \A sq \in k.empty : before.pieces[sq] = EMPTY
                    /\ \A sq \in k.safe : ~RefAttacked(before.pieces, sq, Not(before.side_to_move))

\* A castling move was generated.
C6_Witness ==
    JustGenerated /\ \E m \in MoveSet(moves) : is_castle(m)

\* C7: after a make_bit_move of a legal move or an undo_move,
\* king_square[c] is the one cell that holds the king of colour c.
C7_KingSquareCache ==
    (~panicked /\ last.op \in {"make_bit_move", "undo_move"}) =>
        \A c \in {WHITE, BLACK} :
            \A sq \in RealSquares : pieces[sq] = RefKing(c) <=> sq = king_square[c]

\* The records of the history chain that carry a move.
UndoRecords == {i \in 1..Len(state) : state[i].prev_move # NoMove}
\* The position before the first outstanding make.
Initial == IF Len(snaps) = 0 THEN Pos ELSE snaps[1]

\* C8: the history chain holds as many undo records as there are makes
\* not yet undone, ply is the initial ply plus that number, and the side to
\* move is the initial side exactly when that number is even.
C8_HistoryCount ==
    ~panicked =>
        /\ Cardinality(UndoRecords) = Len(snaps)
        /\ ply = Initial.ply + Len(snaps)
        /\ (side_to_move = Initial.side_to_move) <=> (Len(snaps) % 2 = 0)

\* Two moves were made and the second undone: one undo record is left.
C8_Witness ==
    /\ ~panicked /\ Len(snaps) = 1 /\ last.op = "undo_move"
    /\ Cardinality(UndoRecords) = 1

\* The move takes a piece, by the rules: the target holds one, or the move
\* is an en-passant capture.
TakesPiece(pos, m) ==
    is_piece(pos.pieces[target(m)]) \/ RefIsEnPassant(pos, origin(m), target(m))

\* C9: after a make the halfmove clock is 0 exactly when the move took a
\* piece or moved a pawn, and is the previous clock plus 1 otherwise.
C9_HalfmoveClock ==
    JustMade =>
        LET resets == \/ TakesPiece(MadeOn, last.m)
                      \/ piece_type(MadeOn.pieces[origin(last.m)]) = PAWN
        IN  /\ CurrentState(Pos).halfmove_clock = 0 <=> resets
            /\ ~resets => CurrentState(Pos).halfmove_clock = CurrentState(MadeOn).halfmove_clock + 1

\* A piece other than a pawn took a piece when the clock was not 0.
C9_Witness ==
    /\ JustMade /\ piece_type(MadeOn.pieces[origin(last.m)]) # PAWN
    /\ TakesPiece(MadeOn, last.m)
    /\ CurrentState(MadeOn).halfmove_clock > 0
    /\ CurrentState(Pos).halfmove_clock = 0

\* The home squares of the king and the rook of a castling right.
HomeSquares(right) ==
    CASE right = WHITE_KING_SIDE -> {E1, H1}
      [] right = WHITE_QUEEN_SIDE -> {E1, A1}
      [] right = BLACK_KING_SIDE -> {E8, H8}
      [] right = BLACK_QUEEN_SIDE -> {E8, A8}

\* C10: after a make a castling right is set exactly when it was set
\* before and neither the origin nor the target of the move is the home square
\* of its king or of its rook.
C10_CastlingRights ==
    JustMade =>
        \A right \in {WHITE_KING_SIDE, WHITE_QUEEN_SIDE, BLACK_KING_SIDE, BLACK_QUEEN_SIDE} :
            HasRight(CurrentState(Pos).castling_rights, right) <=>
                /\ HasRight(CurrentState(MadeOn).castling_rights, right)
                /\ origin(last.m) \notin HomeSquares(right)
                /\ target(last.m) \notin HomeSquares(right)

\* A rook was taken on its home square and only its side's right went.
C10_Witness ==
    /\ JustMade /\ target(last.m) = A8 /\ origin(last.m) = A1
    /\ CurrentState(MadeOn).castling_rights = WHITE_QUEEN_SIDE + BLACK_QUEEN_SIDE
    /\ CurrentState(Pos).castling_rights = 0

\* The move carries a pawn two ranks along its file.
DoublePawnPush(pos, m) ==
    /\ piece_type(pos.pieces[origin(m)]) = PAWN
    /\ RefFile(target(m)) = RefFile(origin(m))
    /\ Abs(RefRank(target(m)) - RefRank(origin(m))) = 2

\* C11: after a make the en-passant square is set exactly when the move
\* was a double pawn push, and is then the square on the pawn's file on rank 3
\* for White and rank 6 for Black; after any other move it is none.
C11_EnPassantSquare ==
    JustMade =>
        CurrentState(Pos).ep_square =
            IF DoublePawnPush(MadeOn, last.m)
            THEN RefCell(RefFile(target(last.m)),
                         IF MadeOn.side_to_move = WHITE THEN 2 ELSE 5)
            ELSE NoSquare

\* Black pushed the d-pawn two squares and the en-passant square is d6.
C11_Witness ==
    /\ JustMade /\ MadeOn.side_to_move = BLACK /\ DoublePawnPush(MadeOn, last.m)
    /\ CurrentState(Pos).ep_square = At("d", 6)

\* C12: on the board of every state, for every real square and every
\* colour, is_attacked is true exactly when some piece of that colour attacks
\* the square by the movement rules, found by going through all its pieces.
C12_IsAttacked ==
    \A sq \in RealSquares : \A c \in {WHITE, BLACK} :
        is_attacked(pieces, sq, c) <=> RefAttacked(pieces, sq, c)

\* A black rook attacks a square two or more ranks down its file, and a square
\* of its rank behind another piece is attacked by nothing black.
C12_Witness ==
    \E from \in RealSquares :
        /\ pieces[from] = B_ROOK
        /\ \E sq \in RealSquares :
              /\ RefFile(sq) = RefFile(from) /\ RefRank(from) - RefRank(sq) >= 2
              /\ is_attacked(pieces, sq, BLACK)
        /\ \E sq \in RealSquares :
              /\ RefRank(sq) = RefRank(from) /\ ~RefPathClear(pieces, from, sq)
              /\ ~is_attacked(pieces, sq, BLACK)

\* The last operation was a search that returned.
JustSearched == ~panicked /\ last.op = "search"
\* The list generate_legal_moves returns for the position search was called on.
LegalBefore == generate_legal_moves(before).moves
\* The negated negamax score of the child that root move m leads to.
NegatedChildScore(m) ==
    -negamax(make_bit_move(before, m), last.depth, -INF, INF, debug_assertions).score

\* C13: on a position with exactly one legal move m, search at any depth of
\* at least 1 returns m.
C13_OnlyMoveReturned ==
    (JustSearched /\ Len(LegalBefore) = 1) => last.m = LegalBefore[1]

\* C14: on a position with at least one legal move, search returns a move
\* of the legal move list whose negated child negamax score is the largest
\* among the legal root moves.
C14_BestLegalMove ==
    (JustSearched /\ Len(LegalBefore) >= 1) =>
        /\ last.m \in MoveSet(LegalBefore)
        /\ \A m \in MoveSet(LegalBefore) : NegatedChildScore(last.m) >= NegatedChildScore(m)

\* C15: search on a position with no legal move (checkmate or stalemate)
\* panics; it does not return a move.
C15_NoLegalMovePanics ==
    (last.op = "search" /\ Len(LegalBefore) = 0) => panicked

\* C16: undo_move called when no move has been made since construction (the
\* position holds only the record it was constructed with) panics instead
\* of returning.
C16_UndoEmptyHistoryPanics ==
    (last.op = "undo_move" /\ Len(before.state) = 1) => (panicked /\ ~last.ret)

C16_Witness ==
    /\ panicked /\ last.op = "undo_move" /\ Len(before.state) = 1 /\ Len(snaps) = 0
    /\ side_to_move = Not(before.side_to_move)

\* C17: make_bit_move called with a move that the piece on its origin cannot
\* produce (the origin cell is empty, or the move is not among the moves
\* generated for the position) panics; it does not return, neither with the
\* position unchanged nor with a changed one.
C17_IllegalMakeHalts ==
    (/\ last.op = "make_searched_move"
     /\ last.m \notin MoveSet(generate_pseudo_legal_moves(before))) => panicked

\* perft has returned or panicked.
PerftCalled == last.op = "perft"
\* The counts the perft tests expect, by depth from 1 on.
StartingCounts == <<20, 400, 8902, 197281, 4865609, 119060324>>
KiwipeteCounts == <<48, 2039, 97862>>

\* C18: perft from the standard starting position returns 20, 400, 8902,
\* 197281, 4865609 and 119060324 at the depths 1 to 6.
C18_PerftStarting ==
    (PerftCalled /\ before = FenStarting /\ last.depth \in 1..Len(StartingCounts)) =>
        (~panicked /\ last.count = StartingCounts[last.depth])

\* C19: perft from the kiwipete position returns 48, 2039 and 97862 at the
\* depths 1 to 3.
C19_PerftKiwipete ==
    (PerftCalled /\ before = FenKiwipete /\ last.depth \in 1..Len(KiwipeteCounts)) =>
        (~panicked /\ last.count = KiwipeteCounts[last.depth])

\* The results of perft one ply lower for the positions after each move of the
\* list generate_legal_moves returns.
ChildCounts(pos, depth) ==
    PerftChildren(pos, generate_legal_moves(pos).moves, depth, debug_assertions)

\* C20: perft(pos, 0) is 1, perft(pos, 1) is the number of legal moves of
\* pos, perft(pos, d) for d >= 2 is the sum of perft(position after m, d - 1)
\* over the legal moves m, and the position is unchanged when perft returns.
C20_PerftCounts ==
    PerftCalled =>
        /\ ~panicked
        /\ Pos = before
        /\ last.count =
              IF last.depth = 0 THEN 1
              ELSE IF last.depth = 1 THEN Cardinality(RefLegalMoves(before))
              ELSE SumCounts(ChildCounts(before, last.depth), 1,
                             Cardinality(ChildCounts(before, last.depth)))

(***************************************************************************)
(* The packed move as an integer and as a record of its fields.            *)
(***************************************************************************)
JustBuilt == last.op = "bitmove_new"
\* 2 for a promotion, 1 for a capture that is no promotion, 0 for the rest.
KindRank(move_flags) ==
    IF move_flags.tag = "Promotion" THEN 2
    ELSE IF move_flags.tag = "Capture" THEN 1
    ELSE 0
\* The squares of the moves the built move is compared with: the corners,
\* whose codes 0, 7, 56 and 63 bound the code of every square.
CornerSquares == {SquareNew(f, r) : f \in {0, 7}, r \in {0, 7}}
OtherMoves ==
    {[m |-> BitMoveNew(org, tgt, move_flags), flags |-> move_flags] :
        org \in CornerSquares, tgt \in CornerSquares, move_flags \in MoveFlags}

\* C21: as 16-bit integers every promotion is greater than every capture
\* that is no promotion, and every such capture is greater than every move
\* that neither captures nor promotes, whatever the squares.
C21_KindOrder ==
    JustBuilt =>
        \A other \in OtherMoves :
            /\ KindRank(last.flags) > KindRank(other.flags) => last.m > other.m
            /\ KindRank(last.flags) < KindRank(other.flags) => last.m < other.m
\* The capture with the greatest squares has been built.
C21_Witness ==
    /\ JustBuilt
    /\ last.flags = MoveFlagsCapture(TRUE)
    /\ last.parsed.origin = SquareNew(7, 7)
    /\ last.parsed.target = SquareNew(7, 7)
    /\ \E other \in OtherMoves : other.flags.tag = "Promotion" /\ other.m > last.m
    /\ \E other \in OtherMoves : other.flags.tag = "Castle" /\ other.m < last.m

\* C22: the built move decodes to the origin, the target and the kind it was
\* built from: each predicate is true exactly for its kind and
\* promotion_piece is the piece of a promotion.
C22_RoundTrip ==
    JustBuilt =>
        /\ origin(last.m) = last.parsed.origin
        /\ target(last.m) = last.parsed.target
        /\ is_quiet(last.m) = (last.flags.tag = "QuietMove")
        /\ is_capture(last.m) = (last.flags.tag = "Capture"
                                    \/ (last.flags.tag = "Promotion" /\ last.flags.capture))
        /\ is_en_passant(last.m) = (last.flags.tag = "Capture" /\ last.flags.en_passant)
        /\ is_promotion(last.m) = (last.flags.tag = "Promotion")
        /\ is_castle(last.m) = (last.flags.tag = "Castle")
        /\ is_king_side_castle(last.m) = (last.flags.tag = "Castle" /\ last.flags.kingside)
        /\ is_queen_side_castle(last.m) = (last.flags.tag = "Castle" /\ ~last.flags.kingside)
        /\ is_double_push(last.m) = (last.flags.tag = "DoublePawnPush")
        /\ last.flags.tag = "Promotion" => promotion_piece(last.m) = last.flags.piece
\* A capturing promotion to a rook from g7 to h8 has been built and decoded.
C22_Witness ==
    /\ JustBuilt
    /\ last.flags = MoveFlagsPromotion(TRUE, ROOK)
    /\ origin(last.m) = SquareNew(6, 6)
    /\ target(last.m) = SquareNew(7, 7)
    /\ promotion_piece(last.m) = ROOK

\* C23: a capture of a pawn in the generated list, other than en passant,
\* has a target cell that holds a piece of the other color; none goes to an
\* empty or off-board cell.
C23_PawnCapturesOpposing ==
    JustGenerated =>
        \A m \in MoveSet(moves) :
            (/\ is_piece(before.pieces[origin(m)])
             /\ piece_type(before.pieces[origin(m)]) = PAWN
             /\ is_capture(m) /\ ~is_en_passant(m))
                => /\ is_piece(before.pieces[target(m)])
                   /\ is_color(before.pieces[target(m)], Not(before.side_to_move))

\* C24: when search(depth) returns, every make it did has been undone and the
\* position is the one it was called on: cells, king_square, side_to_move,
\* ply and the state record.
C24_SearchRestores ==
    JustSearched => Pos = before

\* C25: each undo_move gives back the position its make was called on, so
\* that after n makes the k-th undo leaves the position the first n - k
\* makes led to, and the n-th the original one.
C25_UndoInReverse ==
    [][(UndoMove /\ Len(snaps) > 0) => Pos' = snaps[Len(snaps)]]_vars

\* The cell one rank behind the target of move m, seen from the side that moves.
BehindTarget(m, mover) == IF mover = WHITE THEN target(m) - 10 ELSE target(m) + 10

CastleSquares(m, mover) ==
    LET rank == IF mover = WHITE THEN 0 ELSE 7
    IN  IF is_king_side_castle(m)
        THEN [king_from |-> SquareNew(4, rank), king_to |-> SquareNew(6, rank),
              rook_from |-> SquareNew(7, rank), rook_to |-> SquareNew(5, rank)]
        ELSE [king_from |-> SquareNew(4, rank), king_to |-> SquareNew(2, rank),
              rook_from |-> SquareNew(0, rank), rook_to |-> SquareNew(3, rank)]
\* Both castling rights of a side.
RightsOf(mover) ==
    IF mover = WHITE THEN {WHITE_KING_SIDE, WHITE_QUEEN_SIDE}
    ELSE {BLACK_KING_SIDE, BLACK_QUEEN_SIDE}

NegamaxCalled == ~panicked /\ last.op = "negamax"
\* The i-th move the loop of the last call made was legal and its negated
\* child score, the local evaluation, reached beta.
ReachedBeta(i) == last.examined[i].legal /\ last.examined[i].evaluation >= last.beta
\* The loop took the moves of the sorted list in order, from the first on.
ExaminedInOrder ==
    /\ Len(last.examined) <= Len(last.list)
    /\ \A i \in 1..Len(last.examined) : last.examined[i].m = last.list[i]
\* The call returned beta at the first child that reached beta, with the rest
\* of the list left alone, and went through the whole list otherwise.
CutoffReturnsBeta ==
    /\ ExaminedInOrder
    /\ \A i \in 1..Len(last.examined) :
           ReachedBeta(i) => (i = Len(last.examined) /\ last.score = last.beta)
    /\ Len(last.examined) < Len(last.list) => ReachedBeta(Len(last.examined))

NoLegalMoveBefore == generate_legal_moves(before).moves = <<>>

MoveKindRank(m) == IF is_promotion(m) THEN 2 ELSE IF is_capture(m) THEN 1 ELSE 0

\* C30: the loops of negamax and quiescence_search try every promotion
\* before every capture that is no promotion, and every such capture before
\* every move that neither captures nor promotes.
C30_PromotionsFirst ==
    (~panicked /\ last.op \in {"negamax", "quiescence_search"}) =>
        \A i, j \in 1..Len(last.examined) :
            i < j => MoveKindRank(last.examined[i].m) >= MoveKindRank(last.examined[j].m)

(***************************************************************************)
(* Quiescence search that keeps capturing: each legal capture is scored by *)
(* the negation of the same search of the position after it.  Chains of    *)
(* captures are followed MaxCaptureChain deep.                             *)
(***************************************************************************)
MaxCaptureChain == 4

RECURSIVE QuiescenceRecursive(_, _, _, _)
RECURSIVE QuiescenceRecursiveLoop(_, _, _, _, _, _)
QuiescenceRecursiveLoop(pos, list, i, alpha, beta, fuel) ==
    IF i > Len(list) THEN alpha
    ELSE LET made == make_bit_move(pos, list[i])
         IN  IF in_check(made, Not(made.side_to_move))
             THEN QuiescenceRecursiveLoop(pos, list, i + 1, alpha, beta, fuel)
             ELSE CHOOSE r \in
                      {IF score >= beta THEN beta
                       ELSE QuiescenceRecursiveLoop(pos, list, i + 1, Larger(alpha, score),
                                                    beta, fuel) :
                          score \in {-QuiescenceRecursive(made, -beta, -alpha, fuel - 1)}} :
                      TRUE
QuiescenceRecursive(pos, alpha, beta, fuel) ==
    CHOOSE r \in
        {IF evaluation >= beta THEN beta
         ELSE IF fuel = 0 THEN Larger(alpha, evaluation)
         ELSE CHOOSE over \in
                  {QuiescenceRecursiveLoop(pos, list, 1, Larger(alpha, evaluation), beta, fuel) :
                      list \in SortedMoves(pos, TRUE)} :
                  TRUE :
            evaluation \in {evaluate(pos)}} :
        TRUE

QuiescenceCalled == ~panicked /\ last.op = "quiescence_search"

\* C31: quiescence_search returns beta when the static evaluation reaches
\* beta, and otherwise the value of the search that scores every legal
\* capture by the negated quiescence search of the position after it.
C31_QuiescenceRecurses ==
    QuiescenceCalled =>
        last.score = QuiescenceRecursive(before, last.alpha, last.beta, MaxCaptureChain)

\* C32: search, negamax and quiescence_search return for every position and
\* depth, and at no moment of search(depth) are more makes outstanding (made
\* and not yet undone) than depth + 1 plus the length of the longest capture
\* chain quiescence_search made.
C32_MakesOutstanding ==
    JustSearched => last.deepest <= last.depth + 1 + last.chain

\* A search at the greatest depth whose deepest line ends in a capture made by
\* quiescence_search: depth + 2 makes are outstanding there.
C32_Witness ==
    /\ JustSearched
    /\ last.depth = MaxDepth
    /\ last.chain = 1
    /\ last.deepest = last.depth + 2

\* The number of pieces on the 64 real squares.
PieceCount(pos) == Cardinality({sq \in RealSquares : is_piece(pos.pieces[sq])})

\* C33: make_bit_move of a legal capture (plain, en passant or promotion with
\* capture) leaves one piece fewer on the board and records the removed piece
\* as captured_piece; a legal move that is not a capture leaves the number of
\* pieces unchanged; undo_move gives the previous number back.
C33_PieceCount ==
    JustMade =>
        LET removed == MadeOn.pieces[CaptureField(last.m, MadeOn.side_to_move)]
        IN  /\ is_capture(last.m) =>
                  /\ PieceCount(Pos) = PieceCount(MadeOn) - 1
                  /\ is_piece(removed)
                  /\ CurrentState(Pos).captured_piece = removed
            /\ ~is_capture(last.m) => PieceCount(Pos) = PieceCount(MadeOn)
            /\ PieceCount(undo_move(Pos)) = PieceCount(MadeOn)

MaxRay == 12
\* The values a sequence of offsets holds.
OffsetsOf(table) == {table[i] : i \in 1..Len(table)}
\* An i8 holds the number x.
FitsI8(x) == x >= -128 /\ x <= 127
\* The files and the ranks an offset stands for: offset = 10 * ranks + files.
OffsetFiles(offset) == ((offset + 2) % 10) - 2
OffsetRanks(offset) == (offset - OffsetFiles(offset)) \div 10
\* The indices one step of a single-step piece computes from square sq: pawn
\* pushes and captures of both colours, the double push from the starting
\* rank, knight and king steps.
StepTargets(sq) ==
    {<<sq, sq + o>> : o \in OffsetsOf(WHITE_PAWN_CAPTURE_OFFSETS)
                           \cup OffsetsOf(BLACK_PAWN_CAPTURE_OFFSETS)
                           \cup {WHITE_PAWN_OFFSET, BLACK_PAWN_OFFSET}
                           \cup OffsetsOf(KNIGHT_OFFSETS) \cup OffsetsOf(KING_OFFSETS)}
    \cup (IF SquareRank(sq) = 1 THEN {<<sq + WHITE_PAWN_OFFSET, sq + 2 * WHITE_PAWN_OFFSET>>}
          ELSE {})
    \cup (IF SquareRank(sq) = 6 THEN {<<sq + BLACK_PAWN_OFFSET, sq + 2 * BLACK_PAWN_OFFSET>>}
          ELSE {})
\* The steps <<from, to>> the while loop of a sliding piece takes from index
\* from with one offset: it goes on from every cell that is empty.
RECURSIVE RaySteps(_, _, _, _)
RaySteps(cells, from, offset, fuel) ==
    LET to == from + offset
    IN  IF to \in DOMAIN cells /\ cells[to] = EMPTY /\ fuel > 0
        THEN {<<from, to>>} \cup RaySteps(cells, to, offset, fuel - 1)
        ELSE {<<from, to>>}
\* One step from a real square stays within the array and the i8, and lands on
\* the square its files and ranks name or, if there is none, on an OFF_BOARD
\* cell outside the 64 squares.
StepLandsRight(cells, step) ==
    LET from == step[1]
        to == step[2]
        file == SquareFile(from) + OffsetFiles(to - from)
        rank == SquareRank(from) + OffsetRanks(to - from)
    IN  /\ from \in RealSquares
        /\ FitsI8(to)
        /\ to \in 0..119
        /\ IF file \in 0..7 /\ rank \in 0..7
           THEN to = SquareNew(file, rank)
           ELSE to \notin RealSquares /\ cells[to] = OFF_BOARD

\* C34: from every real square, square + offset for every pawn, knight,
\* bishop, rook and king offset, and every further index a ray walks to before
\* the first cell that is not empty, lies in 0..119 and fits an i8; a step
\* that leaves the 8x8 area lands on an OFF_BOARD cell, never on a real square
\* of another rank or file.
C34_OffsetsStayOnBoard ==
    \A sq \in RealSquares :
        /\ \A step \in StepTargets(sq) : StepLandsRight(pieces, step)
        /\ \A o \in OffsetsOf(BISHOP_OFFSETS) \cup OffsetsOf(ROOK_OFFSETS) :
              \A step \in RaySteps(pieces, sq, o, MaxRay) : StepLandsRight(pieces, step)

AllRights == {WHITE_KING_SIDE, WHITE_QUEEN_SIDE, BLACK_KING_SIDE, BLACK_QUEEN_SIDE}
RightColor(right) == IF right \in {WHITE_KING_SIDE, WHITE_QUEEN_SIDE} THEN WHITE ELSE BLACK
\* The home squares of a right hold the king and the rook of its colour.
AtHome(board, right) ==
    \A sq \in HomeSquares(right) :
        board[sq] = NewPiece(IF sq \in {E1, E8} THEN KING ELSE ROOK, RightColor(right))
\* The right a castle of side mover uses.
RightUsed(m, mover) ==
    IF mover = WHITE
    THEN IF is_king_side_castle(m) THEN WHITE_KING_SIDE ELSE WHITE_QUEEN_SIDE
    ELSE IF is_king_side_castle(m) THEN BLACK_KING_SIDE ELSE BLACK_QUEEN_SIDE

\* C35: in every position of a game, a castling right that is set has the
\* king of its colour on e1 / e8 and a rook of its colour on its corner, so
\* every generated castle moves a king and a rook that are there.
C35_RightsAtHome ==
    /\ \A right \in AllRights :
          HasRight(CurrentState(Pos).castling_rights, right) => AtHome(pieces, right)
    /\ JustGenerated =>
          \A m \in MoveSet(moves) :
              is_castle(m) => AtHome(before.pieces, RightUsed(m, before.side_to_move))

\* The number of kings of colour c on the board.
KingCount(board, c) == Cardinality({i \in DOMAIN board : board[i] = NewPiece(KING, c)})
OneKingEach(board) == KingCount(board, WHITE) = 1 /\ KingCount(board, BLACK) = 1

\* C36: in every position of a game, and in every position
\* generate_legal_moves visits by making a candidate, the board holds one
\* white king and one black king; no pseudo-legal or legal move that is
\* generated has a target square a king stands on.
C36_OneKingEach ==
    /\ OneKingEach(pieces)
    /\ JustGenerated =>
          /\ \A m \in MoveSet(generate_pseudo_legal_moves(before)) :
                /\ OneKingEach(make_bit_move(before, m).pieces)
                /\ before.pieces[target(m)] \notin {W_KING, B_KING}
          /\ \A m \in MoveSet(moves) : before.pieces[target(m)] \notin {W_KING, B_KING}

\* The step of one rank in the direction the pawns of colour c travel.
PawnStep(c) == IF c = WHITE THEN WHITE_PAWN_OFFSET ELSE BLACK_PAWN_OFFSET

\* C37: where the en-passant square is set it is empty, the cell next to it
\* on its file in the direction the pushed pawn travelled holds a pawn of the
\* side that just moved, and the cell next to it on the other side, where that
\* pawn came from, is empty; every generated en passant move removes an enemy
\* pawn.
C37_EnPassantSquare ==
    /\ CurrentState(Pos).ep_square # NoSquare =>
          LET ep == CurrentState(Pos).ep_square
              pushed == Not(side_to_move)
          IN  /\ pieces[ep] = EMPTY
              /\ pieces[ep + PawnStep(pushed)] = NewPiece(PAWN, pushed)
              /\ pieces[ep - PawnStep(pushed)] = EMPTY
    /\ JustGenerated =>
          \A m \in MoveSet(moves) :
              is_en_passant(m) =>
                  before.pieces[CaptureField(m, before.side_to_move)]
                      = NewPiece(PAWN, Not(before.side_to_move))

\* What a ParsedMove is compared with: origin, target and the promotion piece
\* of a promotion (bit_move.rs 256-268).
ParsedTriple(m) ==
    <<origin(m), target(m), IF is_promotion(m) THEN promotion_piece(m) ELSE NoPromotion>>

\* C38: no two distinct moves of the list generate_legal_moves returns have
\* the same origin, target and promotion piece, so a ParsedMove equals at most
\* one legal BitMove and make_move has one move to make.
C38_TriplesDistinct ==
    JustGenerated =>
        /\ \A m1 \in MoveSet(moves) : \A m2 \in MoveSet(moves) :
              m1 # m2 => ParsedTriple(m1) # ParsedTriple(m2)
        /\ \A parsed \in ParsedInputs(before) :
              Cardinality({m \in MoveSet(moves) : BitMoveEqParsed(m, parsed)}) <= 1

JustUpdated == last.op = "update"

\* C39: for the sixteen rights values and every real square, update(sq)
\* gives the rights the match of make_bit_move gives: it clears the rights
\* whose king or rook has sq as home square and no other, leaves the value
\* alone for squares other than a1, e1, h1, a8, e8, h8, gives the same when
\* called twice, and gives the same for origin then target as for target
\* then origin.
C39_MaskEqualsMatch ==
    JustUpdated =>
        LET cr == last.rights
            org == last.parsed.origin
            tgt == last.parsed.target
        IN  /\ last.after_origin = remove_castling_rights(cr, org)
            /\ last.after_both
                   = remove_castling_rights(remove_castling_rights(cr, org), tgt)
            /\ \A right \in AllRights :
                  HasRight(last.after_origin, right)
                      <=> (HasRight(cr, right) /\ org \notin HomeSquares(right))
            /\ org \notin {A1, E1, H1, A8, E8, H8} => last.after_origin = cr
            /\ update(last.after_origin, org) = last.after_origin
            /\ last.after_both = update(update(cr, tgt), org)

\* All four rights, a move from e1 to h8: only the black queen-side right
\* is left.
C39_Witness ==
    /\ JustUpdated
    /\ last.rights = 15
    /\ last.parsed.origin = E1 /\ last.parsed.target = H8
    /\ last.after_both = BLACK_QUEEN_SIDE

============================================================================
